---- MODULE Spec2Model ----
(***************************************************************************)
(* Model of the `mol` crate: the ear-clipping triangulation engine of      *)
(* src/src/triangulate/earclipping.rs together with the vector/matrix      *)
(* helpers of src/src/math it calls, and the OBJ parser and the flat       *)
(* iterator of src/src/lib.rs.                                             *)
(*                                                                         *)
(* Floating point.  An f32 is modelled as an extended rational             *)
(* [n |-> numerator, d |-> denominator] in lowest terms with d >= 0:       *)
(*   d > 0          the finite value n/d                                   *)
(*   n = 1,  d = 0  +infinity                                              *)
(*   n = -1, d = 0  -infinity                                              *)
(*   n = 0,  d = 0  NaN                                                    *)
(* F32 rounds an exact result to the nearest value with a 24-bit           *)
(* significand, ties to even, as IEEE-754 binary32 does; the operations of *)
(* Triangle::contains that divide by a determinant and the accumulation of *)
(* fit_plane_normal use it.  The other operations work on values whose     *)
(* exact results are f32 values, and are defined on those only (Exact).    *)
(* The exponent range is not modelled (no value of the model comes near    *)
(* overflow or the subnormals) and neither is the sign of zero (the only   *)
(* division by zero of the code, 1.0 / (1.0 + c) in Vec3::unit_align,      *)
(* divides by +0.0).                                                       *)
(***************************************************************************)
EXTENDS Integers, Sequences, FiniteSets, TLC

\* ---------------------------------------------------------------- bounds
\* The mesh positions are the grid points (x, 0, z), x in 0..MaxX, z in 0..MaxZ.
MaxX == 2
MaxZ == 2
\* Longest vertex loop of a single-face scene.
MaxVerts == 4
\* Scenes of several faces: at most MaxObjects objects of at most MaxGroups
\* groups each, holding at most MaxFaces faces altogether.
MaxObjects == 2
MaxGroups == 2
MaxFaces == 2

\* ---------------------------------------------------------------- f32
Abs(i) == IF i < 0 THEN -i ELSE i

Sign(i) == IF i < 0 THEN -1 ELSE IF i > 0 THEN 1 ELSE 0

RECURSIVE Gcd(_, _)
Gcd(a, b) == IF b = 0 THEN a ELSE Gcd(b, a % b)

\* n/d divided through by the common factor g.
Lowest(n, d, g) == [n |-> n \div g, d |-> d \div g]

\* The extended rational n/d in lowest terms.
Rat(n, d) ==
  IF d = 0 THEN [n |-> Sign(n), d |-> 0] ELSE Lowest(n, d, Gcd(Abs(n), d))

FInt(i) == [n |-> i, d |-> 1]

NaN == [n |-> 0, d |-> 0]

IsNaN(a) == a.n = 0 /\ a.d = 0

IsFinite(a) == a.d > 0

RECURSIVE IsPow2(_)
IsPow2(d) == IF d = 1 THEN TRUE ELSE IF d % 2 = 1 THEN FALSE ELSE IsPow2(d \div 2)

\* Width of the f32 significand: values below 2^24 are kept exactly.
MantissaLimit == 2 ^ 24

\* Whether the extended rational r (in lowest terms) is an f32 value.
IsF32(r) == r.d = 0 \/ (IsPow2(r.d) /\ Abs(r.n) < MantissaLimit)

\* q or q + 1, whichever is nearer to q + r/y, ties to the even one.
Nearer(q, r, y) ==
  IF r < y - r THEN q
  ELSE IF r > y - r THEN q + 1
  ELSE IF q % 2 = 0 THEN q ELSE q + 1

\* x / y rounded to the nearest integer, ties to the even one.
RoundHalfEven(x, y) == Nearer(x \div y, x % y, y)

\* Least k with a / 2^k < 2^24 (a >= 0), as the scale 2^k.
RECURSIVE DownScale(_, _)
DownScale(a, p) == IF a \div p < MantissaLimit THEN p ELSE DownScale(a, 2 * p)

\* Least s with a * 2^s >= 2^23 * d (a > 0), as the scale 2^s.
RECURSIVE UpScale(_, _, _)
UpScale(a, d, p) ==
  IF (a * p) \div d >= MantissaLimit \div 2 THEN p ELSE UpScale(a, d, 2 * p)

\* r, whose denominator is a power of two, with its numerator rounded to a
\* multiple of the scale p.
RoundDyadic(r, p) == Rat(Sign(r.n) * RoundHalfEven(Abs(r.n), p) * p, r.d)

\* r rounded to a multiple of 1/p.
RoundFraction(r, p) == Rat(Sign(r.n) * RoundHalfEven(Abs(r.n) * p, r.d), p)

\* The f32 nearest to the finite r (round to nearest, ties to even).
Nearest(r) ==
  IF IsPow2(r.d) THEN RoundDyadic(r, DownScale(Abs(r.n), 1))
  ELSE RoundFraction(r, UpScale(Abs(r.n), r.d, 1))

\* The f32 nearest to the exact value n/d.
F32(n, d) == IF d = 0 THEN Rat(n, 0) ELSE Nearest(Rat(n, d))

\* The exact value n/d, which has to be an f32: no value is chosen, and TLC
\* stops with an error, when n/d needs rounding.
Exact(n, d) == CHOOSE r \in { Rat(n, d) } : IsF32(r)

FNeg(a) == [n |-> -a.n, d |-> a.d]

FAbs(a) == [n |-> Abs(a.n), d |-> a.d]

\* A sum with an infinity or a NaN among its operands.
AddNonFinite(a, b) ==
  IF IsNaN(a) \/ IsNaN(b) THEN NaN
  ELSE IF a.d = 0 /\ b.d = 0 THEN (IF a.n = b.n THEN a ELSE NaN)
  ELSE IF a.d = 0 THEN a ELSE b

\* Numerator and denominator of the exact sum of the finite a and b, g being
\* the greatest common divisor of their denominators.
SumNum(a, b, g) == a.n * (b.d \div g) + b.n * (a.d \div g)

SumDen(a, b, g) == (a.d \div g) * b.d

\* Numerator and denominator of the exact quotient a / b of a by the finite b;
\* x / 0.0 is an infinity and 0.0 / 0.0 is NaN.
QuotNum(a, b) == (IF b.n < 0 THEN -a.n ELSE a.n) * b.d

QuotDen(a, b) == a.d * Abs(b.n)

\* The f32 operators *, +, -, / on operands whose exact result is an f32 (every
\* operation of the code but the three named below).
FMul(a, b) == Exact(a.n * b.n, a.d * b.d)

FAdd(a, b) ==
  IF a.d = 0 \/ b.d = 0 THEN AddNonFinite(a, b)
  ELSE Exact(SumNum(a, b, Gcd(a.d, b.d)), SumDen(a, b, Gcd(a.d, b.d)))

FSub(a, b) == FAdd(a, FNeg(b))

FDiv(a, b) ==
  IF IsNaN(a) \/ IsNaN(b) THEN NaN
  ELSE IF b.d = 0 THEN (IF a.d = 0 THEN NaN ELSE FInt(0))
  ELSE Exact(QuotNum(a, b), QuotDen(a, b))

\* The f32 operators *, +, -, / with the rounding of their result, for
\* Triangle::contains, whose 1.0 / det is no f32 in general, and for the
\* sums of fit_plane_normal.
FMulRound(a, b) == F32(a.n * b.n, a.d * b.d)

FAddRound(a, b) ==
  IF a.d = 0 \/ b.d = 0 THEN AddNonFinite(a, b)
  ELSE F32(SumNum(a, b, Gcd(a.d, b.d)), SumDen(a, b, Gcd(a.d, b.d)))

FSubRound(a, b) == FAddRound(a, FNeg(b))

FDivRound(a, b) ==
  IF IsNaN(a) \/ IsNaN(b) THEN NaN
  ELSE IF b.d = 0 THEN (IF a.d = 0 THEN NaN ELSE FInt(0))
  ELSE F32(QuotNum(a, b), QuotDen(a, b))

\* Comparisons: every comparison with NaN is false.
FLt(a, b) ==
  IF IsNaN(a) \/ IsNaN(b) THEN FALSE
  ELSE IF a.d = 0 /\ b.d = 0 THEN a.n < b.n
  ELSE a.n * b.d < b.n * a.d

FGt(a, b) == FLt(b, a)

FEq(a, b) == ~IsNaN(a) /\ ~IsNaN(b) /\ a = b

\* f32::sqrt; the model only takes roots of perfect squares, which are exact.
FSqrt(a) == FInt(CHOOSE s \in 0..Abs(a.n) : s * s * a.d = a.n)

\* std::f32::EPSILON = 2^-23
EPSILON == [n |-> 1, d |-> 2 ^ 23]

\* approx_eq!(a, b)
approx_eq(a, b) == FLt(FAbs(FSub(a, b)), EPSILON)

\* ---------------------------------------------------------------- math
\* Vec3::new
Vec3(x, y, z) == [x |-> x, y |-> y, z |-> z]

UNIT_Y == Vec3(FInt(0), FInt(1), FInt(0))

\* Vec3::dot
dot(u, v) == FAdd(FAdd(FMul(u.x, v.x), FMul(u.y, v.y)), FMul(u.z, v.z))

\* Vec3::squared_magnitude
squared_magnitude(u) == dot(u, u)

\* The else branch of Vec3::normalize: u divided by the magnitude mag.
normalize_div(u, mag) == Vec3(FDiv(u.x, mag), FDiv(u.y, mag), FDiv(u.z, mag))

\* Vec3::normalize after `let mag = self.squared_magnitude()`: a vector of
\* squared magnitude 0.0 is left unchanged.
normalize_mag(u, mag) ==
  IF FEq(mag, FInt(0)) THEN u ELSE normalize_div(u, FSqrt(mag))

\* Vec3::normalize
normalize(u) == normalize_mag(u, squared_magnitude(u))

\* Vec3::cross, with the y component as the source computes it.
cross(u, v) ==
  Vec3(FSub(FMul(u.y, v.z), FMul(u.z, v.y)),
       FSub(FMul(u.z, v.z), FMul(u.x, v.z)),
       FSub(FMul(u.x, v.y), FMul(u.y, v.x)))

\* The Mat3 of Vec3::unit_align, row by row, as a sequence: its entry e is
\* p[e] * q[e] * k + t[e], and the source's `- z` is `+ (-z)`.
unit_align_entries(p, q, t, k) ==
  SubSeq([e \in 1..9 |-> FAdd(FMul(FMul(p[e], q[e]), k), t[e])], 1, 9)

\* Vec3::unit_align after `let Vec3 {x, y, z} = u1.cross(u2)` (a) and
\* `let c = u1.dot(u2)`, with k = 1.0 / (1.0 + c).
unit_align_mat(a, c) ==
  unit_align_entries(<< a.x, a.y, a.z, a.x, a.y, a.z, a.x, a.y, a.z >>,
                     << a.x, a.x, a.x, a.y, a.y, a.y, a.z, a.z, a.z >>,
                     << c, FNeg(a.z), a.y, a.z, c, FNeg(a.x), FNeg(a.y), a.x, c >>,
                     FDiv(FInt(1), FAdd(FInt(1), c)))

\* Vec3::unit_align: the nine entries of the Mat3, row by row.
unit_align(u1, u2) == unit_align_mat(cross(u1, u2), dot(u1, u2))

\* The Vec3 of the three components s.
Vec3Of(s) == Vec3(s[1], s[2], s[3])

\* impl Mul<Vec3> for &Mat3: component i + 1 is the product of row i with v.
Mat3Mul(m, v) ==
  Vec3Of([i \in 1..3 |->
            FAdd(FAdd(FMul(v.x, m[3 * i - 2]), FMul(v.y, m[3 * i - 1])),
                 FMul(v.z, m[3 * i])) ])

\* ---------------------------------------------------------------- geometry
\* A Vertex is the triple <<position, texcoord, normal>> of 1-based indices.
\* An access positions[vertex[0] - 1] outside the array panics.
InRange(obj, vertex) == vertex[1] >= 1 /\ vertex[1] <= Len(obj.positions)

\* OBJ::pos
pos(obj, vertex) == obj.positions[vertex[1]]

\* Point { x: v.x, y: v.z }
PointXZ(v) == [x |-> v.x, y |-> v.z]

\* OBJ::point: the x and z components of tf * pos.
point(obj, vertex, tf) == PointXZ(Mat3Mul(tf, pos(obj, vertex)))

\* The projected points of a vertex loop, as a sequence.
Points(obj, polygon, tf) ==
  SubSeq([i \in 1..Len(polygon) |-> point(obj, polygon[i], tf)], 1, Len(polygon))

\* PartialEq for Point
PointEq(p, q) == FEq(p.x, q.x) /\ FEq(p.y, q.y)

\* The det! macro of Triangle::contains; c is the third corner.
det(s, t, u, c) ==
  FAdd(FMul(FSub(t.y, u.y), FSub(s.x, c.x)), FMul(FSub(u.x, t.x), FSub(s.y, c.y)))

\* The tail of Triangle::contains: the tests on the barycentric coordinates
\* l1 and l2.
contains_l(l1, l2) ==
  IF FLt(l1, FInt(0)) THEN FALSE
  ELSE IF FLt(l2, FInt(0)) THEN FALSE
  ELSE FLt(FAddRound(l1, l2), FInt(1))

\* Triangle::contains after `let det = det!(a, b, c)`; d1 and d2 are the
\* determinants det!(p, b, c) and det!(p, c, a).
contains_det(d, d1, d2) ==
  IF approx_eq(d, FInt(0)) THEN TRUE
  ELSE contains_l(FMulRound(FDivRound(FInt(1), d), d1),
                  FMulRound(FDivRound(FInt(1), d), d2))

\* Triangle::contains for the triangle <<a, b, c>>
contains(tri, p) ==
  contains_det(det(tri[1], tri[2], tri[3], tri[3]),
               det(p, tri[2], tri[3], tri[3]),
               det(p, tri[3], tri[1], tri[3]))

\* Triangle::winding: TRUE = counter-clockwise
winding(tri) ==
  FGt(FSub(FMul(FSub(tri[2].x, tri[1].x), FSub(tri[3].y, tri[1].y)),
           FMul(FSub(tri[3].x, tri[1].x), FSub(tri[2].y, tri[1].y))), FInt(0))

\* cond!(index > 0 => index - 1; max_index) and cond!(index < max => index + 1; 0),
\* on the 0-based indices of the source.
PrevIdx(i, max_index) == IF i > 0 THEN i - 1 ELSE max_index

\* Variant of NextIdx that always takes the second branch of the cond!.
NextIdx_zero(i, max_index) == 0

NextIdx(i, max_index) == IF i < max_index THEN i + 1 ELSE 0

\* Variant of Corner whose first element is the element at i itself.
Corner_no_prev(s, i) ==
  << s[i + 1], s[i + 1], s[NextIdx(i, Len(s) - 1) + 1] >>

\* The elements before, at and after the 0-based index i of the loop s.
Corner(s, i) ==
  << s[PrevIdx(i, Len(s) - 1) + 1], s[i + 1], s[NextIdx(i, Len(s) - 1) + 1] >>

\* The scan of polygon_winding for the leftmost point: the 0-based index found
\* when the loop has looked at the elements i.. of pts, starting from (index, left).
RECURSIVE Leftmost(_, _, _, _)
Leftmost(pts, i, index, left) ==
  IF i >= Len(pts) THEN index
  ELSE IF \/ FLt(pts[i + 1].x, left.x)
          \/ (approx_eq(pts[i + 1].x, left.x) /\ FLt(pts[i + 1].y, left.y))
       THEN Leftmost(pts, i + 1, i, pts[i + 1])
       ELSE Leftmost(pts, i + 1, index, left)

\* Variant of polygon_winding_pts that takes the winding at the first point
\* of the loop instead of the leftmost one.
polygon_winding_pts_first(pts) == winding(Corner(pts, 0))

\* polygon_winding on the projected points: the winding at the leftmost point.
polygon_winding_pts(pts) == winding(Corner(pts, Leftmost(pts, 0, 0, pts[1])))

\* polygon_winding
polygon_winding(polygon, obj, tf) == polygon_winding_pts(Points(obj, polygon, tf))

\* One step of fit_plane_normal's loop: normal += the term of prev and curr.
Newell_add(normal, prev, curr) ==
  Vec3(FAddRound(normal.x, FMulRound(FAddRound(prev.z, curr.z), FSubRound(prev.y, curr.y))),
       FAddRound(normal.y, FMulRound(FAddRound(prev.x, curr.x), FSubRound(prev.z, curr.z))),
       FAddRound(normal.z, FMulRound(FAddRound(prev.y, curr.y), FSubRound(prev.x, curr.x))))

\* The accumulation loop of fit_plane_normal from element i (1-based) on.
RECURSIVE Newell(_, _, _, _, _)
Newell(obj, vertices, i, prev, normal) ==
  IF i > Len(vertices) THEN normal
  ELSE Newell(obj, vertices, i + 1, pos(obj, vertices[i]),
              Newell_add(normal, prev, pos(obj, vertices[i])))

\* fit_plane_normal
fit_plane_normal(obj, vertices) ==
  normalize(Newell(obj, vertices, 1, pos(obj, vertices[Len(vertices)]),
                   Vec3(FInt(0), FInt(0), FInt(0))))

\* ---------------------------------------------------------------- results
\* Option<T>: None is the empty sequence, Some(t) the one-element sequence.
None == << >>

Some(t) == << t >>

\* Result<T>: Ok(value), Err(error), or the panic of an out-of-bounds index.
Ok(v) == [tag |-> "Ok", val |-> v]

Err(e) == [tag |-> "Err", err |-> e]

Panic == [tag |-> "Panic"]

IsOk(r) == r.tag = "Ok"

\* Variant of Remove that drops the last element, whatever the index.
Remove_last(seq, i) == SubSeq(seq, 1, Len(seq) - 1)

\* Vec::remove(i) for the 0-based index i.
Remove(seq, i) == SubSeq(seq, 1, i) \o SubSeq(seq, i + 2, Len(seq))

\* ---------------------------------------------------------------- face level
\* The vertex loop of a Face (the match of FaceTriangulator::new).
FaceVertices(face) == face.vertices

\* The FaceTriangulator that from_obj_polygon builds around tf_flatten.
FaceTriangulator_of(obj, polygon, tf_flatten) ==
  [polygon |-> polygon,
   polygon_winding |-> polygon_winding(polygon, obj, tf_flatten),
   reflex_indices |-> << >>,
   tf_flatten |-> tf_flatten]

\* Variant of from_obj_polygon whose length test lets loops of 2 vertices in.
from_obj_polygon_min2(obj, polygon) ==
  IF Len(polygon) < 2 THEN Err("TooFewVertices")
  ELSE IF \E i \in 1..Len(polygon) : ~InRange(obj, polygon[i]) THEN Panic
  ELSE Ok(FaceTriangulator_of(obj, polygon,
            unit_align(fit_plane_normal(obj, polygon), UNIT_Y)))

\* FaceTriangulator::from_obj_polygon
from_obj_polygon(obj, polygon) ==
  IF Len(polygon) < 3 THEN Err("TooFewVertices")
  ELSE IF \E i \in 1..Len(polygon) : ~InRange(obj, polygon[i]) THEN Panic
  ELSE Ok(FaceTriangulator_of(obj, polygon,
            unit_align(fit_plane_normal(obj, polygon), UNIT_Y)))

\* FaceTriangulator::new
FaceTriangulator_new(obj, face) == from_obj_polygon(obj, FaceVertices(face))

\* Variant of EarResult for a search that records no reflex index.
EarResult_no_record(found, ear, reflex) ==
  [found |-> found, ear |-> ear, reflex_indices |-> << >>]

\* The outcome of an ear search: whether an ear was found, the candidate index
\* the search ended on, and the reflex indices pushed.
EarResult(found, ear, reflex) ==
  [found |-> found, ear |-> ear, reflex_indices |-> reflex]

\* The second test on a candidate: a reflex vertex other than its neighbours
\* lies in the candidate triangle.
ReflexInside(pts, ear, reflex) ==
  \E k \in 1..Len(reflex) :
     /\ reflex[k] # PrevIdx(ear, Len(pts) - 1)
     /\ reflex[k] # NextIdx(ear, Len(pts) - 1)
     /\ contains(Corner(pts, ear), pts[reflex[k] + 1])

\* Variant of LaterInside that does not leave out the corners of the
\* candidate triangle.
LaterInside_corners(pts, ear) ==
  \E i \in (ear + 1)..(Len(pts) - 1) : contains(Corner(pts, ear), pts[i + 1])

\* The third test on a candidate: a later vertex that is none of the
\* triangle's corners lies in the candidate triangle.
LaterInside(pts, ear) ==
  \E i \in (ear + 1)..(Len(pts) - 1) :
     /\ ~(\E c \in 1..3 : PointEq(Corner(pts, ear)[c], pts[i + 1]))
     /\ contains(Corner(pts, ear), pts[i + 1])

\* The 'find_ear loop of FaceTriangulator::next, entered with the candidate
\* `ear` (already incremented) and the reflex indices pushed so far; pts are
\* the projected points of the working polygon.  Indices are 0-based.
RECURSIVE find_ear(_, _, _, _)
RECURSIVE find_ear_no_winding(_, _, _, _)
\* Variant of find_ear without the winding test on the candidate.
find_ear_no_winding(pts, pw, ear, reflex) ==
  IF ear >= Len(pts) - 1 THEN EarResult(FALSE, ear, reflex)
  ELSE IF ReflexInside(pts, ear, reflex)
  THEN find_ear_no_winding(pts, pw, ear + 1, reflex)
  ELSE IF LaterInside(pts, ear) THEN find_ear_no_winding(pts, pw, ear + 1, reflex)
  ELSE EarResult(TRUE, ear, reflex)

\* The 'find_ear loop of FaceTriangulator::next (see above).
find_ear(pts, pw, ear, reflex) ==
  IF ear >= Len(pts) - 1 THEN EarResult(FALSE, ear, reflex)
  ELSE IF winding(Corner(pts, ear)) # pw
  THEN find_ear(pts, pw, ear + 1, Append(reflex, ear))
  ELSE IF ReflexInside(pts, ear, reflex) THEN find_ear(pts, pw, ear + 1, reflex)
  ELSE IF LaterInside(pts, ear) THEN find_ear(pts, pw, ear + 1, reflex)
  ELSE EarResult(TRUE, ear, reflex)

\* Variant of FaceTriangulator_clip that does not clear the polygon when the
\* ear search fails.
FaceTriangulator_clip_no_clear(self, r) ==
  IF ~r.found
  THEN [self |-> [self EXCEPT !.reflex_indices = r.reflex_indices], item |-> None]
  ELSE [self |-> [self EXCEPT !.polygon = Remove(self.polygon, r.ear),
                              !.reflex_indices = r.reflex_indices],
        item |-> Some(Corner(self.polygon, r.ear))]

\* FaceTriangulator::next after the 'find_ear loop has ended with r: the
\* polygon is cleared when no ear was found, and the ear is cut off and
\* returned otherwise.
FaceTriangulator_clip(self, r) ==
  IF ~r.found
  THEN [self |-> [self EXCEPT !.polygon = << >>,
                              !.reflex_indices = r.reflex_indices],
        item |-> None]
  ELSE [self |-> [self EXCEPT !.polygon = Remove(self.polygon, r.ear),
                              !.reflex_indices = r.reflex_indices],
        item |-> Some(Corner(self.polygon, r.ear))]

\* Variant of FaceTriangulator_next that flips the winding flag of the
\* triangulator at every call that searches for an ear.
FaceTriangulator_next_flip(obj, self) ==
  IF Len(self.polygon) < 3 THEN [self |-> self, item |-> None]
  ELSE FaceTriangulator_clip([self EXCEPT !.polygon_winding = ~self.polygon_winding],
         find_ear(Points(obj, self.polygon, self.tf_flatten),
                  self.polygon_winding, 0, << >>))

\* FaceTriangulator::next: the new state of the triangulator and the item.
\* The search starts at ear = usize::MAX, whose wrapping_add(1) is 0.
FaceTriangulator_next(obj, self) ==
  IF Len(self.polygon) < 3 THEN [self |-> self, item |-> None]
  ELSE FaceTriangulator_clip(self,
         find_ear(Points(obj, self.polygon, self.tf_flatten),
                  self.polygon_winding, 0, << >>))

\* FaceTriangulator::size_hint
size_hint(self) ==
  LET count == IF Len(self.polygon) >= 2 THEN Len(self.polygon) - 2 ELSE 0
  IN  << count, Some(count) >>

\* ---------------------------------------------------------------- batch
\* The 'find_ear loop of triangulate (the same tests, written out a second
\* time in the source).
RECURSIVE find_ear_batch(_, _, _, _)
RECURSIVE find_ear_batch_all(_, _, _, _)
\* Variant of find_ear_batch that also examines the last index of the
\* polygon before it gives up.
find_ear_batch_all(pts, pw, ear, reflex) ==
  IF ear >= Len(pts) THEN EarResult(FALSE, ear, reflex)
  ELSE IF winding(Corner(pts, ear)) # pw
  THEN find_ear_batch_all(pts, pw, ear + 1, Append(reflex, ear))
  ELSE IF ReflexInside(pts, ear, reflex)
  THEN find_ear_batch_all(pts, pw, ear + 1, reflex)
  ELSE IF LaterInside(pts, ear) THEN find_ear_batch_all(pts, pw, ear + 1, reflex)
  ELSE EarResult(TRUE, ear, reflex)

\* The 'find_ear loop of triangulate (see above).
find_ear_batch(pts, pw, ear, reflex) ==
  IF ear >= Len(pts) - 1 THEN EarResult(FALSE, ear, reflex)
  ELSE IF winding(Corner(pts, ear)) # pw
  THEN find_ear_batch(pts, pw, ear + 1, Append(reflex, ear))
  ELSE IF ReflexInside(pts, ear, reflex) THEN find_ear_batch(pts, pw, ear + 1, reflex)
  ELSE IF LaterInside(pts, ear) THEN find_ear_batch(pts, pw, ear + 1, reflex)
  ELSE EarResult(TRUE, ear, reflex)

\* The while loop of triangulate: polygon is the working polygon, triangles
\* the list pushed so far; clip_ear is the iteration after its 'find_ear loop
\* has ended with r.
RECURSIVE clip_loop(_, _, _, _, _)
RECURSIVE clip_ear(_, _, _, _, _, _)
clip_ear(obj, tf, pw, polygon, triangles, r) ==
  IF ~r.found THEN Err("NoEarFound")
  ELSE clip_loop(obj, tf, pw, Remove(polygon, r.ear),
                 Append(triangles, Corner(polygon, r.ear)))

clip_loop(obj, tf, pw, polygon, triangles) ==
  IF Len(polygon) < 3 THEN Ok(triangles)
  ELSE clip_ear(obj, tf, pw, polygon, triangles,
                find_ear_batch(Points(obj, polygon, tf), pw, 0, << >>))

\* triangulate after `let tf = normal.unit_align(Vec3::UNIT_Y)`.
triangulate_tf(polygon, obj, tf) ==
  clip_loop(obj, tf, polygon_winding(polygon, obj, tf), polygon, << >>)

\* triangulate
triangulate(polygon, obj) ==
  IF Len(polygon) <= 2 THEN Err("TooFewVertices")
  ELSE IF Len(polygon) = 3 THEN Ok(<< << polygon[1], polygon[2], polygon[3] >> >>)
  ELSE IF \E i \in 1..Len(polygon) : ~InRange(obj, polygon[i]) THEN Panic
  ELSE triangulate_tf(polygon, obj, unit_align(fit_plane_normal(obj, polygon), UNIT_Y))

\* ---------------------------------------------------------------- group level
RECURSIVE GroupTriangulator_new_from(_, _, _)
\* Variant of GroupTriangulator_new_try that gives up at the first face that
\* does not construct.
GroupTriangulator_new_try_stop(obj, group, face_index, r) ==
  IF IsOk(r)
  THEN Ok([group |-> group, face_index |-> face_index, triangulator |-> r.val])
  ELSE Err("NoValidFacesFound")

\* One iteration of the for loop of GroupTriangulator::new: r is the result of
\* FaceTriangulator::new on the face at face_index.
GroupTriangulator_new_try(obj, group, face_index, r) ==
  IF IsOk(r)
  THEN Ok([group |-> group, face_index |-> face_index, triangulator |-> r.val])
  ELSE GroupTriangulator_new_from(obj, group, face_index + 1)

\* The for loop of GroupTriangulator::new from face_index on (0-based).
GroupTriangulator_new_from(obj, group, face_index) ==
  IF face_index >= Len(group.faces) THEN Err("NoValidFacesFound")
  ELSE GroupTriangulator_new_try(obj, group, face_index,
         FaceTriangulator_new(obj, group.faces[face_index + 1]))

\* GroupTriangulator::new
GroupTriangulator_new(obj, group) == GroupTriangulator_new_from(obj, group, 0)

\* The inner loop of make_triangulation_iterator! for GroupTriangulator:
\* advance face_index to the next face that constructs, or to the end.
\* GroupTriangulator_enter is one iteration, self.face_index already
\* incremented and r the result of FaceTriangulator::new on that face.
RECURSIVE GroupTriangulator_advance(_, _)
GroupTriangulator_enter(obj, self, r) ==
  IF IsOk(r) THEN [self EXCEPT !.triangulator = r.val]
  ELSE GroupTriangulator_advance(obj, self)

GroupTriangulator_advance(obj, self) ==
  IF self.face_index + 1 >= Len(self.group.faces)
  THEN [self EXCEPT !.face_index = self.face_index + 1]
  ELSE GroupTriangulator_enter(obj, [self EXCEPT !.face_index = self.face_index + 1],
         FaceTriangulator_new(obj, self.group.faces[self.face_index + 2]))

RECURSIVE GroupTriangulator_next(_, _)
\* Variant of GroupTriangulator_yield that returns None when the face is
\* exhausted, after moving to the next one, instead of looping.
GroupTriangulator_yield_no_loop(obj, self, r) ==
  IF r.item # None
  THEN [self |-> [self EXCEPT !.triangulator = r.self], item |-> r.item]
  ELSE [self |-> GroupTriangulator_advance(obj, [self EXCEPT !.triangulator = r.self]),
        item |-> None]

\* The outer loop of make_triangulation_iterator! for GroupTriangulator after
\* self.triangulator.next() has returned r: its item is passed on, and on
\* None the triangulator advances and the loop goes round again.
GroupTriangulator_yield(obj, self, r) ==
  IF r.item # None
  THEN [self |-> [self EXCEPT !.triangulator = r.self], item |-> r.item]
  ELSE GroupTriangulator_next(obj,
         GroupTriangulator_advance(obj, [self EXCEPT !.triangulator = r.self]))

\* Iterator::next of GroupTriangulator (make_triangulation_iterator!)
GroupTriangulator_next(obj, self) ==
  IF self.face_index >= Len(self.group.faces) THEN [self |-> self, item |-> None]
  ELSE GroupTriangulator_yield(obj, self, FaceTriangulator_next(obj, self.triangulator))

\* ---------------------------------------------------------------- object level
RECURSIVE ObjectTriangulator_new_from(_, _, _)
\* Variant of ObjectTriangulator_new_try that gives up at the first group that
\* does not construct.
ObjectTriangulator_new_try_stop(obj, object, group_index, r) ==
  IF IsOk(r)
  THEN Ok([object |-> object, group_index |-> group_index, triangulator |-> r.val])
  ELSE Err("NoValidGroupsFound")

\* One iteration of the for loop of ObjectTriangulator::new: r is the result
\* of GroupTriangulator::new on the group at group_index.
ObjectTriangulator_new_try(obj, object, group_index, r) ==
  IF IsOk(r)
  THEN Ok([object |-> object, group_index |-> group_index, triangulator |-> r.val])
  ELSE ObjectTriangulator_new_from(obj, object, group_index + 1)

\* The for loop of ObjectTriangulator::new from group_index on (0-based).
ObjectTriangulator_new_from(obj, object, group_index) ==
  IF group_index >= Len(object.groups) THEN Err("NoValidGroupsFound")
  ELSE ObjectTriangulator_new_try(obj, object, group_index,
         GroupTriangulator_new(obj, object.groups[group_index + 1]))

\* ObjectTriangulator::new
ObjectTriangulator_new(obj, object) == ObjectTriangulator_new_from(obj, object, 0)

\* The inner loop of make_triangulation_iterator! for ObjectTriangulator, and
\* one iteration of it.
RECURSIVE ObjectTriangulator_advance(_, _)
ObjectTriangulator_enter(obj, self, r) ==
  IF IsOk(r) THEN [self EXCEPT !.triangulator = r.val]
  ELSE ObjectTriangulator_advance(obj, self)

ObjectTriangulator_advance(obj, self) ==
  IF self.group_index + 1 >= Len(self.object.groups)
  THEN [self EXCEPT !.group_index = self.group_index + 1]
  ELSE ObjectTriangulator_enter(obj, [self EXCEPT !.group_index = self.group_index + 1],
         GroupTriangulator_new(obj, self.object.groups[self.group_index + 2]))

\* The outer loop of make_triangulation_iterator! for ObjectTriangulator after
\* self.triangulator.next() has returned r.
RECURSIVE ObjectTriangulator_next(_, _)
ObjectTriangulator_yield(obj, self, r) ==
  IF r.item # None
  THEN [self |-> [self EXCEPT !.triangulator = r.self], item |-> r.item]
  ELSE ObjectTriangulator_next(obj,
         ObjectTriangulator_advance(obj, [self EXCEPT !.triangulator = r.self]))

\* Variant of ObjectTriangulator's next whose end test is `>` instead of `>=`.
ObjectTriangulator_next_gt(obj, self) ==
  IF self.group_index > Len(self.object.groups) THEN [self |-> self, item |-> None]
  ELSE ObjectTriangulator_yield(obj, self, GroupTriangulator_next(obj, self.triangulator))

\* Iterator::next of ObjectTriangulator (make_triangulation_iterator!)
ObjectTriangulator_next(obj, self) ==
  IF self.group_index >= Len(self.object.groups) THEN [self |-> self, item |-> None]
  ELSE ObjectTriangulator_yield(obj, self, GroupTriangulator_next(obj, self.triangulator))

\* ---------------------------------------------------------------- scene level
\* The for loop of ObjTriangulator::from_obj from object_index on (0-based),
\* and one iteration of it: r is the result of ObjectTriangulator::new on the
\* object at object_index.
RECURSIVE ObjTriangulator_from_obj_from(_, _)
ObjTriangulator_from_obj_try(obj, object_index, r) ==
  IF IsOk(r) THEN Ok([object_index |-> object_index, triangulator |-> r.val])
  ELSE ObjTriangulator_from_obj_from(obj, object_index + 1)

ObjTriangulator_from_obj_from(obj, object_index) ==
  IF object_index >= Len(obj.objects) THEN Err("NoValidObjectsFound")
  ELSE ObjTriangulator_from_obj_try(obj, object_index,
         ObjectTriangulator_new(obj, obj.objects[object_index + 1]))

\* ObjTriangulator::from_obj
ObjTriangulator_from_obj(obj) == ObjTriangulator_from_obj_from(obj, 0)

\* The inner loop of make_triangulation_iterator! for ObjTriangulator, and one
\* iteration of it.
RECURSIVE ObjTriangulator_advance(_, _)
ObjTriangulator_enter(obj, self, r) ==
  IF IsOk(r) THEN [self EXCEPT !.triangulator = r.val]
  ELSE ObjTriangulator_advance(obj, self)

ObjTriangulator_advance(obj, self) ==
  IF self.object_index + 1 >= Len(obj.objects)
  THEN [self EXCEPT !.object_index = self.object_index + 1]
  ELSE ObjTriangulator_enter(obj, [self EXCEPT !.object_index = self.object_index + 1],
         ObjectTriangulator_new(obj, obj.objects[self.object_index + 2]))

\* The outer loop of make_triangulation_iterator! for ObjTriangulator after
\* self.triangulator.next() has returned r.
RECURSIVE ObjTriangulator_next(_, _)
ObjTriangulator_yield(obj, self, r) ==
  IF r.item # None
  THEN [self |-> [self EXCEPT !.triangulator = r.self], item |-> r.item]
  ELSE ObjTriangulator_next(obj,
         ObjTriangulator_advance(obj, [self EXCEPT !.triangulator = r.self]))

\* Iterator::next of ObjTriangulator (make_triangulation_iterator!)
ObjTriangulator_next(obj, self) ==
  IF self.object_index >= Len(obj.objects) THEN [self |-> self, item |-> None]
  ELSE ObjTriangulator_yield(obj, self, ObjectTriangulator_next(obj, self.triangulator))

\* ---------------------------------------------------------------- meshes
W == MaxZ + 1

NPos == (MaxX + 1) * W

\* The 1-based index of the grid point (x, z) in the position array.
Idx(x, z) == x * W + z + 1

\* The position array: the grid points (x, 0, z), x-major.  On
\* faces of the plane y = 0 every operation of fit_plane_normal, unit_align
\* and Mat3 * Vec3 is exact in f32.
Positions ==
  [i \in 1..NPos |-> Vec3(FInt((i - 1) \div W), FInt(0), FInt((i - 1) % W))]

\* A vertex loop over the position indices ps: the i-th vertex reference has
\* texture index i and normal index 1.
MkLoop(ps) == [i \in 1..Len(ps) |-> << ps[i], i, 1 >>]

\* A Face of the variant its length asks for.
MkFace(loop) ==
  [tag |-> IF Len(loop) = 3 THEN "Tri" ELSE IF Len(loop) = 4 THEN "Quad" ELSE "NGon",
   vertices |-> loop]

SeqsUpTo(S, n) == UNION { [1..k -> S] : k \in 0..n }

\* Whether the positions of the index sequence ps are pairwise distinct.
Distinct(ps) == \A i, j \in 1..Len(ps) : i # j => ps[i] # ps[j]

\* The vertex loops of the single-face scenes, up to MaxVerts vertices over
\* the grid: every loop of 3 vertices (repeated positions included), the
\* loops of 4 and more vertices over pairwise distinct positions (convex,
\* reflex, collinear and self-intersecting ones), and the loops of fewer than
\* 3 vertices, which also range over the out-of-range indices 0 and NPos + 1.
Loops ==
  UNION { { MkLoop(ps) : ps \in { q \in [1..k -> (IF k < 3 THEN 0..(NPos + 1) ELSE 1..NPos)] :
                                   k > 3 => Distinct(q) } }
          : k \in 0..MaxVerts }

SingleFaceScenes ==
  { << [groups |-> << [faces |-> << MkFace(l) >>] >>] >> : l \in Loops }

\* The faces of the scenes of several faces: a loop of two vertices, a
\* quad that triangulates, and a quad whose ear search fails after one
\* triangle.
ShortFace == MkFace(MkLoop(<< Idx(0, 0), Idx(1, 0) >>))

GoodQuad == MkFace(MkLoop(<< Idx(0, 0), Idx(0, 1), Idx(1, 1), Idx(1, 0) >>))

BadQuad == MkFace(MkLoop(<< Idx(0, 0), Idx(0, 1), Idx(1, 0), Idx(2, 0) >>))

FacePool == { ShortFace, GoodQuad, BadQuad }

\* Sequences of at most n groups holding at most b faces altogether.
RECURSIVE GroupSeqs(_, _)
GroupSeqs(n, b) ==
  { << >> } \cup
  (IF n = 0 THEN {}
   ELSE UNION { { << [faces |-> fs] >> \o s : s \in GroupSeqs(n - 1, b - Len(fs)) }
                : fs \in SeqsUpTo(FacePool, b) })

RECURSIVE SumFaces(_, _)
SumFaces(groups, i) ==
  IF i > Len(groups) THEN 0 ELSE Len(groups[i].faces) + SumFaces(groups, i + 1)

\* Sequences of at most n objects holding at most b faces altogether.
RECURSIVE ObjectSeqs(_, _)
ObjectSeqs(n, b) ==
  { << >> } \cup
  (IF n = 0 THEN {}
   ELSE UNION { { << [groups |-> gs] >> \o s : s \in ObjectSeqs(n - 1, b - SumFaces(gs, 1)) }
                : gs \in GroupSeqs(MaxGroups, b) })

Scenes == ObjectSeqs(MaxObjects, MaxFaces)

\* ---------------------------------------------------------------- state
VARIABLES
  obj,     \* the mesh: [positions, objects]
  kind,    \* the triangulator the caller constructed: "none", "face", "group", "object", "obj"
  target,  \* what it was constructed on: << o, g, f >>, << o, g >>, << o >> or << >> (1-based)
  ctor,    \* the constructor's result: "none", "Ok", an Error, or "Panic"
  it,      \* the triangulator itself (None unless ctor = "Ok")
  out,     \* the triangles its next() calls have returned so far
  last,    \* what its latest next() call returned: "start" (no call yet), "some", "none"
  batch    \* None, or Some of the face given to triangulate and the Result it returned

vars == << obj, kind, target, ctor, it, out, last, batch >>

ResultName(r) == IF r.tag = "Err" THEN r.err ELSE r.tag

FaceAt(p) == obj.objects[p[1]].groups[p[2]].faces[p[3]]

GroupAt(p) == obj.objects[p[1]].groups[p[2]]

ObjectAt(p) == obj.objects[p[1]]

FacePaths ==
  { p \in (1..MaxObjects) \X (1..MaxGroups) \X (1..MaxFaces) :
      /\ p[1] <= Len(obj.objects)
      /\ p[2] <= Len(obj.objects[p[1]].groups)
      /\ p[3] <= Len(obj.objects[p[1]].groups[p[2]].faces) }

GroupPaths ==
  { p \in (1..MaxObjects) \X (1..MaxGroups) :
      p[1] <= Len(obj.objects) /\ p[2] <= Len(obj.objects[p[1]].groups) }

ObjectPaths == { << o >> : o \in 1..Len(obj.objects) }

Init ==
  /\ obj \in { [positions |-> Positions, objects |-> s] : s \in Scenes }
  /\ kind = "none"
  /\ target = << >>
  /\ ctor = "none"
  /\ it = None
  /\ out = << >>
  /\ last = "start"
  /\ batch = None

\* A constructor call with result r on the target p.
Construct(k, p, r) ==
  /\ kind' = k
  /\ target' = p
  /\ ctor' = ResultName(r)
  /\ it' = IF IsOk(r) THEN r.val ELSE None
  /\ UNCHANGED << obj, out, last, batch >>

\* A next() call that returned r.
Pull(r) ==
  /\ it' = r.self
  /\ out' = IF r.item = None THEN out ELSE Append(out, r.item[1])
  /\ last' = IF r.item = None THEN "none" ELSE "some"
  /\ UNCHANGED << obj, kind, target, ctor, batch >>

\* FaceTriangulator::new on the face p
FaceNew(p) ==
  /\ kind = "none"
  /\ Construct("face", p, FaceTriangulator_new(obj, FaceAt(p)))

\* next() on the FaceTriangulator
FaceNext ==
  /\ kind = "face"
  /\ ctor = "Ok"
  /\ Pull(FaceTriangulator_next(obj, it))

\* GroupTriangulator::new on the group p
GroupNew(p) ==
  /\ kind = "none"
  /\ Construct("group", p, GroupTriangulator_new(obj, GroupAt(p)))

\* next() on the GroupTriangulator
GroupNext ==
  /\ kind = "group"
  /\ ctor = "Ok"
  /\ Pull(GroupTriangulator_next(obj, it))

\* ObjectTriangulator::new on the object p
ObjectNew(p) ==
  /\ kind = "none"
  /\ Construct("object", p, ObjectTriangulator_new(obj, ObjectAt(p)))

\* next() on the ObjectTriangulator
ObjectNext ==
  /\ kind = "object"
  /\ ctor = "Ok"
  /\ Pull(ObjectTriangulator_next(obj, it))

\* ObjTriangulator::from_obj
ObjNew ==
  /\ kind = "none"
  /\ Construct("obj", << >>, ObjTriangulator_from_obj(obj))

\* next() on the ObjTriangulator
ObjNext ==
  /\ kind = "obj"
  /\ ctor = "Ok"
  /\ Pull(ObjTriangulator_next(obj, it))

\* A call of the batch function on the vertex loop of the face p.
Triangulate(p) ==
  /\ batch = None
  /\ batch' = Some([face |-> p, res |-> triangulate(FaceVertices(FaceAt(p)), obj)])
  /\ UNCHANGED << obj, kind, target, ctor, it, out, last >>

Next ==
  \/ \E p \in FacePaths : FaceNew(p)
  \/ FaceNext
  \/ \E p \in GroupPaths : GroupNew(p)
  \/ GroupNext
  \/ \E p \in ObjectPaths : ObjectNew(p)
  \/ ObjectNext
  \/ ObjNew
  \/ ObjNext
  \/ \E p \in FacePaths : Triangulate(p)

Spec == Init /\ [][Next]_vars

\* The face level alone, over every vertex loop of Loops: one face in one
\* group of one object, triangulated by a FaceTriangulator and by triangulate.
InitFace ==
  /\ obj \in { [positions |-> Positions, objects |-> s] : s \in SingleFaceScenes }
  /\ kind = "none"
  /\ target = << >>
  /\ ctor = "none"
  /\ it = None
  /\ out = << >>
  /\ last = "start"
  /\ batch = None

NextFace ==
  \/ FaceNew(<< 1, 1, 1 >>)
  \/ FaceNext
  \/ Triangulate(<< 1, 1, 1 >>)

SpecFace == InitFace /\ [][NextFace]_vars

\* ---------------------------------------------------------------- polygons
\* Exact plane geometry on the integer grid coordinates of the positions,
\* used to state the properties below.

\* The (x, z) grid coordinates of a vertex reference.
XZ(v) == << obj.positions[v[1]].x.n, obj.positions[v[1]].z.n >>

\* Twice the signed area of the triangle a, b, c.
Orient(a, b, c) == (b[1] - a[1]) * (c[2] - a[2]) - (c[1] - a[1]) * (b[2] - a[2])

Between(lo, hi, v) == (lo <= v /\ v <= hi) \/ (hi <= v /\ v <= lo)

\* p lies on the closed segment a-b.
OnSegment(a, b, p) ==
  Orient(a, b, p) = 0 /\ Between(a[1], b[1], p[1]) /\ Between(a[2], b[2], p[2])

\* The closed segments a-b and c-d have a point in common.
SegmentsMeet(a, b, c, d) ==
  \/ /\ Sign(Orient(a, b, c)) * Sign(Orient(a, b, d)) < 0
     /\ Sign(Orient(c, d, a)) * Sign(Orient(c, d, b)) < 0
  \/ OnSegment(a, b, c) \/ OnSegment(a, b, d)
  \/ OnSegment(c, d, a) \/ OnSegment(c, d, b)

RECURSIVE Shoelace(_, _)
Shoelace(pts, i) ==
  IF i > Len(pts) THEN 0
  ELSE LET a == pts[i]
           b == pts[(i % Len(pts)) + 1]
       IN  a[1] * b[2] - b[1] * a[2] + Shoelace(pts, i + 1)

\* Twice the signed area of the loop.
Area2(loop) == Shoelace([i \in 1..Len(loop) |-> XZ(loop[i])], 1)

\* A simple polygon: at least 3 vertices at pairwise distinct positions of
\* the mesh, non-zero area, consecutive edges meeting only in their common
\* vertex and no two other edges meeting at all.
IsSimple(loop) ==
  LET n == Len(loop)
      P(i) == XZ(loop[((i - 1) % n) + 1])
  IN  /\ n >= 3
      /\ \A i \in 1..n : InRange(obj, loop[i])
      /\ \A i, j \in 1..n : i # j => XZ(loop[i]) # XZ(loop[j])
      /\ Area2(loop) # 0
      /\ \A i \in 1..n :
           /\ ~OnSegment(P(i), P(i + 1), P(i + 2))
           /\ ~OnSegment(P(i + 1), P(i + 2), P(i))
      /\ \A i, j \in 1..n :
           (i < j /\ j # i + 1 /\ (j % n) + 1 # i)
             => ~SegmentsMeet(P(i), P(i + 1), P(j), P(j + 1))

RECURSIVE SumTriAreas(_, _)
SumTriAreas(tris, i) ==
  IF i > Len(tris) THEN 0
  ELSE Abs(Orient(XZ(tris[i][1]), XZ(tris[i][2]), XZ(tris[i][3]))) + SumTriAreas(tris, i + 1)

\* The vertex loop of the face of a single-face scene.
TheLoop == FaceVertices(FaceAt(<< 1, 1, 1 >>))

\* The FaceTriangulator of the state has returned None.
FaceDone == kind = "face" /\ ctor = "Ok" /\ last = "none"

\* ---------------------------------------------------------------- properties
\* C1: for every simple polygon face of n >= 3 vertices, a FaceTriangulator
\* pulled until it returns None has yielded exactly n - 2 triangles, and
\* triangulate on the same loop returns Ok with exactly n - 2 triangles.
C1_TriangleCount ==
  IsSimple(TheLoop) =>
    /\ kind = "face" => ctor = "Ok"
    /\ FaceDone => Len(out) = Len(TheLoop) - 2
    /\ batch # None =>
         IsOk(batch[1].res) /\ Len(batch[1].res.val) = Len(TheLoop) - 2

\* A simple quad, flattened by a finite projection, whose first ear is not
\* its first vertex, has been triangulated both ways.
C1_Witness ==
  /\ IsSimple(TheLoop)
  /\ Len(TheLoop) = 4
  /\ FaceDone
  /\ Len(out) = 2
  /\ ~IsNaN(it.tf_flatten[1])
  /\ out[1][2] # TheLoop[1]
  /\ batch # None

\* C2: the triangles emitted for a simple polygon face tile it: their areas
\* add up to the area of the polygon.
C2_Tiling ==
  IsSimple(TheLoop) =>
    /\ FaceDone => SumTriAreas(out, 1) = Abs(Area2(TheLoop))
    /\ (batch # None /\ IsOk(batch[1].res)) =>
         SumTriAreas(batch[1].res.val, 1) = Abs(Area2(TheLoop))

\* C3: a loop of 0, 1 or 2 vertices is rejected with TooFewVertices by
\* FaceTriangulator::new and by triangulate, without a panic, whatever its
\* vertex indices are.
C3_TooFewVertices ==
  Len(TheLoop) < 3 =>
    /\ kind = "face" => ctor = "TooFewVertices"
    /\ batch # None => batch[1].res = Err("TooFewVertices")

\* Both functions have rejected a loop holding an out-of-range index.
C3_Witness ==
  /\ Len(TheLoop) = 2
  /\ \E i \in 1..2 : ~InRange(obj, TheLoop[i])
  /\ kind = "face"
  /\ ctor = "TooFewVertices"
  /\ batch # None

\* C4: a face of exactly 3 vertices [v0, v1, v2] yields exactly the one
\* triangle [v0, v1, v2], in this order, from FaceTriangulator and from
\* triangulate.
C4_TriangleUnchanged ==
  Len(TheLoop) = 3 =>
    /\ FaceDone => out = << << TheLoop[1], TheLoop[2], TheLoop[3] >> >>
    /\ batch # None =>
         batch[1].res = Ok(<< << TheLoop[1], TheLoop[2], TheLoop[3] >> >>)

\* A face FaceTriangulator::new accepts: one of at least 3 vertices.
Startable(face) == Len(FaceVertices(face)) >= 3

GroupStartable(group) == \E f \in 1..Len(group.faces) : Startable(group.faces[f])

ObjectStartable(object) ==
  \E g \in 1..Len(object.groups) : GroupStartable(object.groups[g])

\* The 0-based index of the first element of seq satisfying Test.
FirstIndex(seq, Test(_)) ==
  (CHOOSE i \in 1..Len(seq) : Test(seq[i]) /\ \A j \in 1..(i - 1) : ~Test(seq[j])) - 1

\* C5: GroupTriangulator::new returns Err(NoValidFacesFound) exactly when
\* the group has no face of at least 3 vertices, and otherwise Ok with its
\* cursor on the first such face.
C5_GroupNew ==
  kind = "group" =>
    LET group == GroupAt(target)
    IN  /\ ctor \in { "Ok", "NoValidFacesFound" }
        /\ ctor = "NoValidFacesFound" <=> ~GroupStartable(group)
        /\ (ctor = "Ok" /\ last = "start") =>
             /\ it.group = group
             /\ it.face_index = FirstIndex(group.faces, Startable)
             /\ it.triangulator.polygon = FaceVertices(group.faces[it.face_index + 1])

\* A GroupTriangulator was constructed on a group whose first face has too
\* few vertices and whose second face starts.
C5_Witness ==
  /\ kind = "group"
  /\ ctor = "Ok"
  /\ last = "start"
  /\ it.face_index = 1
  /\ ~Startable(GroupAt(target).faces[1])

\* C6: ObjectTriangulator::new returns Err(NoValidGroupsFound) exactly when
\* no group of the object has a face of at least 3 vertices, and
\* ObjTriangulator::from_obj returns Err(NoValidObjectsFound) exactly when no
\* object of the scene has one; otherwise they return Ok, positioned on the
\* first such face in object / group / face order.
C6_ObjectAndObjNew ==
  /\ kind = "object" =>
       LET object == ObjectAt(target)
       IN  /\ ctor \in { "Ok", "NoValidGroupsFound" }
           /\ ctor = "NoValidGroupsFound" <=> ~ObjectStartable(object)
           /\ (ctor = "Ok" /\ last = "start") =>
                LET gi == FirstIndex(object.groups, GroupStartable)
                    group == object.groups[gi + 1]
                IN  /\ it.object = object
                    /\ it.group_index = gi
                    /\ it.triangulator.group = group
                    /\ it.triangulator.face_index = FirstIndex(group.faces, Startable)
                    /\ it.triangulator.triangulator.polygon
                         = FaceVertices(group.faces[it.triangulator.face_index + 1])
  /\ kind = "obj" =>
       /\ ctor \in { "Ok", "NoValidObjectsFound" }
       /\ ctor = "NoValidObjectsFound"
            <=> ~(\E o \in 1..Len(obj.objects) : ObjectStartable(obj.objects[o]))
       /\ (ctor = "Ok" /\ last = "start") =>
            LET oi == FirstIndex(obj.objects, ObjectStartable)
                object == obj.objects[oi + 1]
                gi == FirstIndex(object.groups, GroupStartable)
                group == object.groups[gi + 1]
            IN  /\ it.object_index = oi
                /\ it.triangulator.object = object
                /\ it.triangulator.group_index = gi
                /\ it.triangulator.triangulator.group = group
                /\ it.triangulator.triangulator.face_index
                     = FirstIndex(group.faces, Startable)
                /\ it.triangulator.triangulator.triangulator.polygon
                     = FaceVertices(group.faces[it.triangulator.triangulator.face_index + 1])

\* An ObjTriangulator was constructed on a scene whose first object has no
\* startable face, and within the second object it skipped a group or a face.
C6_Witness ==
  /\ kind = "obj"
  /\ ctor = "Ok"
  /\ last = "start"
  /\ it.object_index = 1
  /\ it.triangulator.group_index + it.triangulator.triangulator.face_index > 0

\* The triangles a fresh FaceTriangulator yields until its first None.
RECURSIVE Drain(_, _)
Drain(ft, acc) ==
  LET r == FaceTriangulator_next(obj, ft)
  IN  IF r.item = None THEN acc ELSE Drain(r.self, Append(acc, r.item[1]))

FaceRun(face) ==
  LET c == FaceTriangulator_new(obj, face)
  IN  IF IsOk(c) THEN Drain(c.val, << >>) ELSE << >>

RECURSIVE GroupRun(_, _)
GroupRun(group, f) ==
  IF f > Len(group.faces) THEN << >>
  ELSE FaceRun(group.faces[f]) \o GroupRun(group, f + 1)

RECURSIVE ObjectRun(_, _)
ObjectRun(object, g) ==
  IF g > Len(object.groups) THEN << >>
  ELSE GroupRun(object.groups[g], 1) \o ObjectRun(object, g + 1)

RECURSIVE SceneRun(_)
SceneRun(o) ==
  IF o > Len(obj.objects) THEN << >>
  ELSE ObjectRun(obj.objects[o], 1) \o SceneRun(o + 1)

\* The concatenation, in declaration order, of the runs of the faces below
\* the target of the triangulator of the state.
Expected ==
  IF kind = "group" THEN GroupRun(GroupAt(target), 1)
  ELSE IF kind = "object" THEN ObjectRun(ObjectAt(target), 1)
  ELSE SceneRun(1)

IsPrefix(s, t) == Len(s) <= Len(t) /\ s = SubSeq(t, 1, Len(s))

\* C7: the triangles pulled from a GroupTriangulator, ObjectTriangulator or
\* ObjTriangulator are the concatenation, in face / group / object order, of
\* what a fresh FaceTriangulator yields for each face of at least 3 vertices:
\* a prefix of it after every call and all of it once next() returned None.
C7_Concatenation ==
  (kind \in { "group", "object", "obj" } /\ ctor = "Ok") =>
    /\ IsPrefix(out, Expected)
    /\ last = "none" => out = Expected

\* A scene-level traversal has ended after a face whose ear search failed
\* midway and a later face that triangulates.
C7_Witness ==
  /\ kind = "obj"
  /\ ctor = "Ok"
  /\ last = "none"
  /\ \E p, q \in FacePaths :
       /\ p[1] < q[1] \/ (p[1] = q[1] /\ (p[2] < q[2] \/ (p[2] = q[2] /\ p[3] < q[3])))
       /\ FaceAt(p) = BadQuad
       /\ FaceAt(q) = GoodQuad
  /\ Len(out) = 3

\* The cursor indices of the triangulator of a state, outermost first.
Cursors(k, t) ==
  IF k = "group" THEN << t.face_index >>
  ELSE IF k = "object" THEN << t.group_index, t.triangulator.face_index >>
  ELSE IF k = "obj"
  THEN << t.object_index, t.triangulator.group_index,
          t.triangulator.triangulator.face_index >>
  ELSE << >>

\* The lengths of the collections the cursors of Cursors(k, t) run over.
CursorLimits(k, t) ==
  IF k = "group" THEN << Len(t.group.faces) >>
  ELSE IF k = "object"
  THEN << Len(t.object.groups), Len(t.triangulator.group.faces) >>
  ELSE IF k = "obj"
  THEN << Len(obj.objects), Len(t.triangulator.object.groups),
          Len(t.triangulator.triangulator.group.faces) >>
  ELSE << >>

\* c is lexicographically at or below d: no cursor moves back unless a
\* cursor of an outer level has advanced (onto a new sub-triangulator).
RECURSIVE LexLeq(_, _, _)
LexLeq(c, d, i) ==
  IF i > Len(c) THEN TRUE
  ELSE c[i] < d[i] \/ (c[i] = d[i] /\ LexLeq(c, d, i + 1))

\* C8: no triangulator restarts: once next() has returned None every later
\* call returns None, and the cursor index of each level never decreases and
\* never exceeds the length of its collection.
C8_NotRestartable ==
  [][ ctor' = "Ok" =>
        /\ \A i \in 1..Len(Cursors(kind', it')) :
             Cursors(kind', it')[i] <= CursorLimits(kind', it')[i]
        /\ ctor = "Ok" =>
             /\ last = "none" => (last' = "none" /\ out' = out)
             /\ LexLeq(Cursors(kind, it), Cursors(kind', it'), 1) ]_vars

\* A scene-level traversal that yielded triangles has returned None with its
\* cursor at the end of the objects.
C8_Witness ==
  /\ kind = "obj"
  /\ ctor = "Ok"
  /\ last = "none"
  /\ Len(out) > 0
  /\ it.object_index = Len(obj.objects)

\* C9: for a loop of n >= 3 vertices triangulate returns Ok(T) exactly when
\* a FaceTriangulator on the loop emits n - 2 triangles, T is then the
\* sequence the triangulator emitted, and when the triangulator stopped
\* early triangulate returns Err(NoEarFound).
C9_SameEngine ==
  (Len(TheLoop) >= 3 /\ FaceDone /\ batch # None) =>
    /\ IsOk(batch[1].res) <=> Len(out) = Len(TheLoop) - 2
    /\ IsOk(batch[1].res) => batch[1].res.val = out
    /\ Len(out) < Len(TheLoop) - 2 => batch[1].res = Err("NoEarFound")

\* C10: a next() call whose ear search finds no ear returns None and leaves
\* the working polygon empty, adding no triangle; every later call returns
\* None as well.
C10_EarSearchFailure ==
  [][ (kind = "face" /\ ctor = "Ok") =>
        /\ (Len(it.polygon) >= 3 /\ last' = "none") =>
             (it'.polygon = << >> /\ out' = out)
        /\ last = "none" => (last' = "none" /\ out' = out /\ it' = it) ]_vars

\* A FaceTriangulator has given up after emitting a triangle.
C10_Witness ==
  /\ FaceDone
  /\ Len(TheLoop) >= 4
  /\ Len(out) >= 1
  /\ Len(out) < Len(TheLoop) - 2
  /\ it.polygon = << >>

\* The projected corners of an emitted triangle, in emitted order.
ProjTri(t, tf) == << point(obj, t[1], tf), point(obj, t[2], tf), point(obj, t[3], tf) >>

\* The projection triangulate computes for the loop of the face (for a loop
\* of 3 vertices: the one it would compute, as FaceTriangulator does).
BatchTf == unit_align(fit_plane_normal(obj, TheLoop), UNIT_Y)

\* C11: every triangle emitted for a face, by FaceTriangulator or by
\* triangulate (the single triangle of a 3-vertex loop included), has the
\* projected orientation (Triangle::winding of its projected corners, in
\* emitted order) of the polygon winding of the face.
C11_WindingPreserved ==
  [][ /\ (kind = "none" /\ kind' = "face" /\ ctor' = "Ok") =>
           it'.polygon_winding = polygon_winding(TheLoop, obj, it'.tf_flatten)
      /\ (kind = "face" /\ ctor = "Ok" /\ batch' = batch) =>
           /\ it'.polygon_winding = it.polygon_winding
           /\ it'.tf_flatten = it.tf_flatten
           /\ last' = "some" =>
                winding(ProjTri(out'[Len(out')], it.tf_flatten)) = it.polygon_winding
      /\ (batch' # batch /\ IsOk(batch'[1].res)) =>
           LET tf == BatchTf
               pw == polygon_winding(TheLoop, obj, tf)
           IN  \A i \in 1..Len(batch'[1].res.val) :
                  winding(ProjTri(batch'[1].res.val[i], tf)) = pw ]_vars

\* A quad whose first vertex is reflex under a finite projection has been
\* triangulated both ways, the first candidate having failed the winding test.
C11_Witness ==
  /\ FaceDone
  /\ Len(TheLoop) = 4
  /\ Len(out) = 2
  /\ ~IsNaN(it.tf_flatten[1])
  /\ winding(Corner(Points(obj, TheLoop, it.tf_flatten), 0)) # it.polygon_winding
  /\ batch # None
  /\ IsOk(batch[1].res)

\* tri is made of the elements at the 0-based indices e - 1, e, e + 1
\* (cyclically) of the working polygon, three different indices.
IsEarOf(polygon, e, tri) ==
  LET n == Len(polygon)
      p == (e + n - 1) % n
      q == (e + 1) % n
  IN  /\ n >= 3
      /\ p # e /\ e # q /\ p # q
      /\ tri = << polygon[p + 1], polygon[e + 1], polygon[q + 1] >>

\* The triangles tris[i..] can be cut one after the other from the working
\* polygon, each made of three consecutive elements of what is left of it.
RECURSIVE CutInOrder(_, _, _)
CutInOrder(polygon, tris, i) ==
  IF i > Len(tris) THEN TRUE
  ELSE \E e \in 0..(Len(polygon) - 1) :
          /\ IsEarOf(polygon, e, tris[i])
          /\ CutInOrder(Remove(polygon, e), tris, i + 1)

\* The vertex references of the triangle t all occur in the loop.
FromLoop(t, loop) == \A c \in 1..3 : \E i \in 1..Len(loop) : loop[i] = t[c]

\* C12: every emitted triangle is (prev, e, next), three different,
\* cyclically consecutive elements of the working polygon at the moment of
\* emission, returned as the face's own vertex references (position,
\* texture and normal index unchanged); no emitted triangle holds a vertex
\* reference that is not in the face's loop.
C12_EmittedTriangle ==
  [][ /\ (kind = "face" /\ ctor = "Ok" /\ batch' = batch /\ last' = "some") =>
           /\ Len(out') = Len(out) + 1
           /\ FromLoop(out'[Len(out')], TheLoop)
           /\ \E e \in 0..(Len(it.polygon) - 1) :
                 /\ IsEarOf(it.polygon, e, out'[Len(out')])
                 /\ it'.polygon = Remove(it.polygon, e)
      /\ (batch' # batch /\ IsOk(batch'[1].res)) =>
           /\ CutInOrder(TheLoop, batch'[1].res.val, 1)
           /\ \A i \in 1..Len(batch'[1].res.val) :
                 FromLoop(batch'[1].res.val[i], TheLoop) ]_vars

\* Both functions have emitted a second triangle, cut from a working polygon
\* that had lost a vertex other than its first one.
C12_Witness ==
  /\ FaceDone
  /\ Len(out) = 2
  /\ out[1][2] = TheLoop[2]
  /\ out[2] = << TheLoop[4], TheLoop[1], TheLoop[3] >>
  /\ batch # None
  /\ IsOk(batch[1].res)
  /\ batch[1].res.val = out

\* The triangulator t of kind k with the working polygon and the reflex set
\* of its FaceTriangulator blanked out.
Blank(k, t) ==
  IF k = "face" THEN [t EXCEPT !.polygon = << >>, !.reflex_indices = << >>]
  ELSE IF k = "group"
  THEN [t EXCEPT !.triangulator.polygon = << >>,
                 !.triangulator.reflex_indices = << >>]
  ELSE IF k = "object"
  THEN [t EXCEPT !.triangulator.triangulator.polygon = << >>,
                 !.triangulator.triangulator.reflex_indices = << >>]
  ELSE [t EXCEPT !.triangulator.triangulator.triangulator.polygon = << >>,
                 !.triangulator.triangulator.triangulator.reflex_indices = << >>]

\* C13: a next() call at any level and a triangulate call leave the mesh as
\* it is (positions, objects, groups, faces and their vertex lists); a
\* next() call changes nothing of the triangulator but the working polygon,
\* the reflex set and the cursor indices: while the cursors stay on a face
\* its winding flag and projection matrix are the ones it was built with.
C13_Frame ==
  [][ /\ obj' = obj
      /\ (ctor = "Ok" /\ batch' = batch) =>
           /\ kind' = kind /\ target' = target /\ ctor' = ctor
           /\ Cursors(kind, it') = Cursors(kind, it)
                => Blank(kind, it') = Blank(kind, it)
           /\ kind = "group" => it'.group = it.group
           /\ kind = "object" => it'.object = it.object
      /\ batch' # batch => it' = it ]_vars

\* An ObjectTriangulator has emitted the last triangle of a face that is
\* not the first face of its object, and triangulate has run too.
C13_Witness ==
  /\ kind = "object"
  /\ ctor = "Ok"
  /\ last = "some"
  /\ Len(out) >= 2
  /\ Len(it.triangulator.triangulator.polygon) = 2
  /\ it.group_index + it.triangulator.face_index > 0
  /\ batch # None

\* C14: for a face whose fitted normal is (0, -1, 0), anti-parallel to
\* UNIT_Y, unit_align returns a matrix of finite entries: the projection
\* FaceTriangulator::new stores, and the one triangulate computes, is well
\* defined.
C14_AntiParallel ==
  (/\ Len(TheLoop) >= 3
   /\ \A i \in 1..Len(TheLoop) : InRange(obj, TheLoop[i])
   /\ fit_plane_normal(obj, TheLoop) = Vec3(FInt(0), FInt(-1), FInt(0))) =>
    /\ (kind = "face" /\ ctor = "Ok") => \A e \in 1..9 : IsFinite(it.tf_flatten[e])
    /\ (batch # None /\ Len(TheLoop) >= 4) => \A e \in 1..9 : IsFinite(BatchTf[e])

\* ---------------------------------------------------------------- rotated plane
\* The rotated-plane tests of earclipping.rs.  f32::sin_cos at the whole
\* degrees whose sine and cosine are 0, 1 or -1; the f32 results differ from
\* these by less than 2^-23 (sin of the f32 nearest to pi is -8.7e-8), which
\* leaves cos = dot(normal, UNIT_Y) at exactly -1 for 180 degrees.
QuadrantDegrees == { 0, 90, 180, 270 }

sin_cos(degrees) ==
  CASE degrees = 0 -> << FInt(0), FInt(1) >>
    [] degrees = 90 -> << FInt(1), FInt(0) >>
    [] degrees = 180 -> << FInt(0), FInt(-1) >>
    [] degrees = 270 -> << FInt(-1), FInt(0) >>

\* The four positions pushed by the make_pos! calls, before rotation.
PlaneCorners ==
  << Vec3(FInt(-1), FInt(0), FInt(1)), Vec3(FInt(1), FInt(0), FInt(1)),
     Vec3(FInt(-1), FInt(0), FInt(-1)), Vec3(FInt(1), FInt(0), FInt(-1)) >>

\* make_pos! of xz_plane_angle_x, for sc = (s, c).
make_pos_x(v, sc) ==
  Vec3(v.x,
       FSub(FMul(v.y, sc[2]), FMul(v.z, sc[1])),
       FAdd(FMul(v.y, sc[1]), FMul(v.z, sc[2])))

\* make_pos! of xz_plane_angle_z, for sc = (s, c).
make_pos_z(v, sc) ==
  Vec3(FSub(FMul(v.x, sc[2]), FMul(v.y, sc[1])),
       FAdd(FMul(v.x, sc[1]), FMul(v.y, sc[1])),
       v.z)

\* The mesh of one face over the four positions.
PlaneObj(positions, loop) ==
  [positions |-> positions,
   objects |-> << [groups |-> << [faces |-> << MkFace(loop) >>] >>] >>]

\* xz_plane_angle_x and xz_plane_angle_z, with the face's loop as a parameter
\* (the tests use PlaneLoop).
xz_plane_angle_x(degrees, loop) ==
  PlaneObj([i \in 1..4 |-> make_pos_x(PlaneCorners[i], sin_cos(degrees))], loop)

xz_plane_angle_z(degrees, loop) ==
  PlaneObj([i \in 1..4 |-> make_pos_z(PlaneCorners[i], sin_cos(degrees))], loop)

\* The Quad of the tests: [1,1,1], [2,2,1], [4,3,1], [3,4,1].
PlaneLoop == << << 1, 1, 1 >>, << 2, 2, 1 >>, << 4, 3, 1 >>, << 3, 4, 1 >> >>

\* The loops of the rotated-plane scenes: the four positions in every order.
PlaneLoops ==
  { MkLoop(ps) : ps \in { q \in [1..4 -> 1..4] : Distinct(q) } }

\* The positions test_plane_obj computes: tf * pos for every vertex of the
\* face, tf aligning the fitted normal with UNIT_Y.
projected_positions(o, vertices, tf) ==
  SubSeq([i \in 1..Len(vertices) |-> Mat3Mul(tf, pos(o, vertices[i]))],
         1, Len(vertices))

test_plane_obj(o) ==
  projected_positions(o, FaceVertices(o.objects[1].groups[1].faces[1]),
    unit_align(fit_plane_normal(o, FaceVertices(o.objects[1].groups[1].faces[1])),
               UNIT_Y))

\* The scenes are drawn with their axis and angle in `target`; the one
\* action runs test_plane_obj and leaves the projected positions in `it`.
InitPlane ==
  /\ target \in { "x", "z" } \X QuadrantDegrees
  /\ obj \in { IF target[1] = "x" THEN xz_plane_angle_x(target[2], l)
               ELSE xz_plane_angle_z(target[2], l) : l \in PlaneLoops }
  /\ kind = "none"
  /\ ctor = "none"
  /\ it = None
  /\ out = << >>
  /\ last = "start"
  /\ batch = None

TestPlane ==
  /\ kind = "none"
  /\ kind' = "plane"
  /\ it' = test_plane_obj(obj)
  /\ UNCHANGED << obj, target, ctor, out, last, batch >>

NextPlane == TestPlane

SpecPlane == InitPlane /\ [][NextPlane]_vars

\* |a - b| <= 0.001 for an f32 value a and an integer b.
Within001(a, b) == IsFinite(a) /\ 1000 * Abs(a.n - b * a.d) <= a.d

\* C15: for the quad (-1,0,1), (1,0,1), (1,0,-1), (-1,0,-1) rotated by a
\* whole number of degrees about the x or the z axis, the positions projected
\* by unit_align(fit_plane_normal(rotated loop), UNIT_Y) are the un-rotated
\* corners, coordinate by coordinate, within 0.001.
C15_RotationUndone ==
  (kind = "plane" /\ FaceVertices(FaceAt(<< 1, 1, 1 >>)) = PlaneLoop) =>
    \A i \in 1..4 :
       /\ Within001(it[i].x, PlaneCorners[PlaneLoop[i][1]].x.n)
       /\ Within001(it[i].y, 0)
       /\ Within001(it[i].z, PlaneCorners[PlaneLoop[i][1]].z.n)

\* ---------------------------------------------------------------- flat_iter
\* Vec2::new
Vec2(x, y) == [x |-> x, y |-> y]

\* Variant of FlatIterator_item that takes the texture coordinate of index 0
\* for every vertex.
FlatIterator_item_no_uv(o, vertex) ==
  IF vertex[1] < 1 \/ vertex[1] > Len(o.positions) THEN "panic"
  ELSE IF vertex[3] > Len(o.normals) THEN "panic"
  ELSE << o.positions[vertex[1]],
          Vec2(FInt(0), FInt(0)),
          IF vertex[3] > 0 THEN o.normals[vertex[3]]
          ELSE Vec3(FInt(0), FInt(0), FInt(0)) >>

\* The item FlatIterator::next builds for a vertex reference: (pos, uvs,
\* norms), or the panic of an index outside its array.
FlatIterator_item(o, vertex) ==
  IF vertex[1] < 1 \/ vertex[1] > Len(o.positions) THEN "panic"
  ELSE IF vertex[2] > Len(o.uvs) \/ vertex[3] > Len(o.normals) THEN "panic"
  ELSE << o.positions[vertex[1]],
          IF vertex[2] > 0 THEN o.uvs[vertex[2]] ELSE Vec2(FInt(0), FInt(0)),
          IF vertex[3] > 0 THEN o.normals[vertex[3]]
          ELSE Vec3(FInt(0), FInt(0), FInt(0)) >>

\* OBJ::flat_iter
flat_iter(o) == [object |-> 0, group |-> 0, face |-> 0, vertex |-> 0]

\* Face::get_vertex, for the face the cursors of self are on.
FlatFace(o, self) ==
  FaceVertices(o.objects[self.object + 1].groups[self.group + 1].faces[self.face + 1])

\* FlatIterator::next: the new state of the iterator and the item.
RECURSIVE FlatIterator_next(_, _)
FlatIterator_next(o, self) ==
  IF self.object >= Len(o.objects) THEN [self |-> self, item |-> None]
  ELSE IF self.group >= Len(o.objects[self.object + 1].groups)
  THEN FlatIterator_next(o, [self EXCEPT !.group = 0, !.object = self.object + 1])
  ELSE IF self.face >= Len(o.objects[self.object + 1].groups[self.group + 1].faces)
  THEN FlatIterator_next(o, [self EXCEPT !.face = 0, !.group = self.group + 1])
  ELSE IF self.vertex >= Len(FlatFace(o, self))
  THEN FlatIterator_next(o, [self EXCEPT !.vertex = 0, !.face = self.face + 1])
  ELSE [self |-> [self EXCEPT !.vertex = self.vertex + 1],
        item |-> Some(FlatIterator_item(o, FlatFace(o, self)[self.vertex + 1]))]

\* The arrays of the flat_iter scenes: three positions, two texture
\* coordinates and two normals, none of them zero.
FlatPositions ==
  << Vec3(FInt(1), FInt(1), FInt(-1)), Vec3(FInt(-1), FInt(1), FInt(-1)),
     Vec3(FInt(-1), FInt(1), FInt(1)) >>

FlatUvs == << Vec2(FInt(1), FInt(0)), Vec2(FInt(0), FInt(1)) >>

FlatNormals == << Vec3(FInt(0), FInt(1), FInt(0)), Vec3(FInt(0), FInt(0), FInt(1)) >>

\* The faces of the flat_iter scenes: a triangle and a loop of two vertices,
\* with and without texture and normal indices.
FlatFacePool ==
  { MkFace(<< << 1, 0, 0 >>, << 2, 1, 1 >>, << 3, 2, 0 >> >>),
    MkFace(<< << 3, 0, 2 >>, << 1, 2, 2 >> >>) }

\* Sequences of at most n groups holding at most b faces altogether.
RECURSIVE FlatGroupSeqs(_, _)
FlatGroupSeqs(n, b) ==
  { << >> } \cup
  (IF n = 0 THEN {}
   ELSE UNION { { << [faces |-> fs] >> \o s : s \in FlatGroupSeqs(n - 1, b - Len(fs)) }
                : fs \in SeqsUpTo(FlatFacePool, b) })

\* Sequences of at most n objects holding at most b faces altogether.
RECURSIVE FlatObjectSeqs(_, _)
FlatObjectSeqs(n, b) ==
  { << >> } \cup
  (IF n = 0 THEN {}
   ELSE UNION { { << [groups |-> gs] >> \o s
                  : s \in FlatObjectSeqs(n - 1, b - SumFaces(gs, 1)) }
                : gs \in FlatGroupSeqs(MaxGroups, b) })

InitFlat ==
  /\ obj \in { [positions |-> FlatPositions, uvs |-> FlatUvs, normals |-> FlatNormals,
               objects |-> s] : s \in FlatObjectSeqs(MaxObjects, MaxFaces) }
  /\ kind = "none"
  /\ target = << >>
  /\ ctor = "none"
  /\ it = None
  /\ out = << >>
  /\ last = "start"
  /\ batch = None

\* obj.flat_iter()
FlatIter ==
  /\ kind = "none"
  /\ kind' = "flat"
  /\ it' = flat_iter(obj)
  /\ UNCHANGED << obj, target, ctor, out, last, batch >>

\* next() on the FlatIterator
FlatNext ==
  /\ kind = "flat"
  /\ Pull(FlatIterator_next(obj, it))

NextFlat == FlatIter \/ FlatNext

SpecFlat == InitFlat /\ [][NextFlat]_vars

\* The item of a vertex reference: its position, its texture coordinate or
\* (0, 0) for index 0, its normal or (0, 0, 0) for index 0.
Resolved(v) ==
  << obj.positions[v[1]],
     IF v[2] = 0 THEN [x |-> FInt(0), y |-> FInt(0)] ELSE obj.uvs[v[2]],
     IF v[3] = 0 THEN [x |-> FInt(0), y |-> FInt(0), z |-> FInt(0)]
     ELSE obj.normals[v[3]] >>

\* The items of a face, of the faces f.. of a group, of the groups g.. of an
\* object and of the objects o.. of the mesh, in storage order.
FlatFaceItems(face) ==
  SubSeq([i \in 1..Len(face.vertices) |-> Resolved(face.vertices[i])],
         1, Len(face.vertices))

RECURSIVE FlatGroupItems(_, _)
FlatGroupItems(group, f) ==
  IF f > Len(group.faces) THEN << >>
  ELSE FlatFaceItems(group.faces[f]) \o FlatGroupItems(group, f + 1)

RECURSIVE FlatObjectItems(_, _)
FlatObjectItems(object, g) ==
  IF g > Len(object.groups) THEN << >>
  ELSE FlatGroupItems(object.groups[g], 1) \o FlatObjectItems(object, g + 1)

RECURSIVE FlatSceneItems(_)
FlatSceneItems(o) ==
  IF o > Len(obj.objects) THEN << >>
  ELSE FlatObjectItems(obj.objects[o], 1) \o FlatSceneItems(o + 1)

FlatExpected == FlatSceneItems(1)

\* C16: flat_iter yields one (position, uv, normal) item per vertex
\* reference of every face, in object, group, face, vertex order, empty
\* objects and groups skipped, indices resolved in the global arrays with
\* (0,0) for texture index 0 and (0,0,0) for normal index 0; after the last
\* item every call returns None.
C16_FlatIter ==
  [][ kind' = "flat" =>
        /\ IsPrefix(out', FlatExpected')
        /\ last' = "none" => out' = FlatExpected'
        /\ (kind = "flat" /\ last' = "some") => Len(out') = Len(out) + 1
        /\ last = "none" => (last' = "none" /\ out' = out) ]_vars

\* The iterator has ended, and ended again, on a mesh with an empty group
\* before a face, after items with and without a zero index.
C16_Witness ==
  /\ kind = "flat"
  /\ last = "none"
  /\ it.object = Len(obj.objects)
  /\ Len(out) >= 5
  /\ \E p \in GroupPaths : GroupAt(p).faces = << >> /\ (p[1] < Len(obj.objects) \/ p[2] < Len(ObjectAt(p).groups))
  /\ \E i \in 1..Len(out) : out[i][2] # [x |-> FInt(0), y |-> FInt(0)]

\* ---------------------------------------------------------------- Vec3::cross
\* The largest absolute value of a component of the vectors Vec3::cross is
\* applied to.
MaxComp == 1

SmallVecs ==
  { Vec3(FInt(x), FInt(y), FInt(z)) : x, y, z \in (-MaxComp)..MaxComp }

\* The two vectors are drawn in `target`; the one action calls
\* target[1].cross(&target[2]) and leaves the result in `it`.
InitCross ==
  /\ target \in SmallVecs \X SmallVecs
  /\ obj = [positions |-> << >>, objects |-> << >>]
  /\ kind = "none"
  /\ ctor = "none"
  /\ it = None
  /\ out = << >>
  /\ last = "start"
  /\ batch = None

Cross ==
  /\ kind = "none"
  /\ kind' = "cross"
  /\ it' = cross(target[1], target[2])
  /\ UNCHANGED << obj, target, ctor, out, last, batch >>

NextCross == Cross

SpecCross == InitCross /\ [][NextCross]_vars

\* C17: Vec3::cross(u, v) is the cross product
\* (u.y*v.z - u.z*v.y, u.z*v.x - u.x*v.z, u.x*v.y - u.y*v.x), and so
\* orthogonal to u and to v.
C17_CrossProduct ==
  kind = "cross" =>
    LET u == target[1]
        v == target[2]
    IN  /\ it.x = FInt(u.y.n * v.z.n - u.z.n * v.y.n)
        /\ it.y = FInt(u.z.n * v.x.n - u.x.n * v.z.n)
        /\ it.z = FInt(u.x.n * v.y.n - u.y.n * v.x.n)
        /\ it.x.n * u.x.n + it.y.n * u.y.n + it.z.n * u.z.n = 0
        /\ it.x.n * v.x.n + it.y.n * v.y.n + it.z.n * v.z.n = 0

\* The outcome of the ear search a next() call makes in the current state.
Search ==
  find_ear(Points(obj, it.polygon, it.tf_flatten), it.polygon_winding, 0, << >>)

\* The triangles tris[i..] can be cut one after the other from the working
\* polygon, each at a candidate index within the scan bound Len - 2.
RECURSIVE CutWithinBound(_, _, _)
CutWithinBound(polygon, tris, i) ==
  IF i > Len(tris) THEN TRUE
  ELSE \E e \in 0..(Len(polygon) - 2) :
          /\ IsEarOf(polygon, e, tris[i])
          /\ CutWithinBound(Remove(polygon, e), tris, i + 1)

\* C18: an ear search on a working polygon of L >= 3 vertices examines the
\* candidates 0, 1, .. in turn, each once and at most L - 1 of them, and then
\* accepts one or fails; each emission shortens the working polygon by one,
\* a polygon of fewer than 3 vertices gives None, and so an n-vertex face
\* emits at most n - 2 triangles, from FaceTriangulator and from triangulate.
C18_SearchTerminates ==
  [][ /\ (kind = "face" /\ ctor = "Ok" /\ batch' = batch) =>
           /\ Len(it.polygon) < 3 => (last' = "none" /\ out' = out)
           /\ Len(it.polygon) >= 3 =>
                LET r == Search
                IN  /\ r.ear <= Len(it.polygon) - 1
                    /\ r.found <=> r.ear <= Len(it.polygon) - 2
                    /\ \A k \in 1..Len(r.reflex_indices) :
                          /\ r.reflex_indices[k] < r.ear
                          /\ k > 1 => r.reflex_indices[k - 1] < r.reflex_indices[k]
                    /\ r.found <=> last' = "some"
                    /\ r.found => it'.polygon = Remove(it.polygon, r.ear)
           /\ last' = "some" => Len(it'.polygon) = Len(it.polygon) - 1
           /\ Len(out') <= Len(TheLoop) - 2
           /\ Len(out') + Len(it'.polygon) <= Len(TheLoop)
      /\ (batch' # batch /\ IsOk(batch'[1].res)) =>
           /\ Len(batch'[1].res.val) = Len(TheLoop) - 2
           /\ CutWithinBound(TheLoop, batch'[1].res.val, 1) ]_vars

\* A FaceTriangulator has accepted the last candidate within the bound after
\* rejecting every earlier one, and triangulate has run on the same face.
C18_Witness ==
  /\ kind = "face"
  /\ ctor = "Ok"
  /\ Len(TheLoop) = 4
  /\ Len(out) = 1
  /\ out[1] = << TheLoop[2], TheLoop[3], TheLoop[4] >>
  /\ it.polygon = << TheLoop[1], TheLoop[2], TheLoop[4] >>
  /\ batch # None
  /\ IsOk(batch[1].res)

\* The ear search the scan order "start after the previously accepted index,
\* wrapping" gives: the candidates (start + count) % L for count = 0, 1, ..,
\* at most L - 1 of them, with the tests of the 'find_ear loop.
RECURSIVE ScanFrom(_, _, _, _, _)
ScanFrom(pts, pw, start, count, reflex) ==
  IF count >= Len(pts) - 1 THEN EarResult(FALSE, start, reflex)
  ELSE LET e == (start + count) % Len(pts)
       IN  IF winding(Corner(pts, e)) # pw
           THEN ScanFrom(pts, pw, start, count + 1, Append(reflex, e))
           ELSE IF ReflexInside(pts, e, reflex) \/ LaterInside(pts, e)
           THEN ScanFrom(pts, pw, start, count + 1, reflex)
           ELSE EarResult(TRUE, e, reflex)

\* The 0-based index, in the working polygon, of the vertex that followed
\* the ear accepted by the previous step (0 before the first step): the ear
\* was cut at this index.
AfterPreviousEar ==
  IF out = << >> THEN 0
  ELSE (CHOOSE i \in 1..Len(it.polygon) : it.polygon[i] = out[Len(out)][3]) - 1

\* The triangulation the wrapping scan order gives for the working polygon,
\* started at the index `start`.
RECURSIVE ScanTriangulation(_, _, _, _)
ScanTriangulation(polygon, tf, pw, start) ==
  IF Len(polygon) < 3 THEN << >>
  ELSE LET r == ScanFrom(Points(obj, polygon, tf), pw, start % Len(polygon), 0, << >>)
       IN  IF ~r.found THEN << >>
           ELSE << Corner(polygon, r.ear) >>
                  \o ScanTriangulation(Remove(polygon, r.ear), tf, pw, r.ear)

\* C19: every extraction step scans the candidates starting at the index
\* after the ear the previous step accepted, wrapping modulo the length of
\* the working polygon: the step emits the first candidate in that order
\* that passes the tests.
C19_ScanStart ==
  [][ /\ (kind = "face" /\ ctor = "Ok" /\ batch' = batch /\ Len(it.polygon) >= 3) =>
           LET r == ScanFrom(Points(obj, it.polygon, it.tf_flatten),
                             it.polygon_winding, AfterPreviousEar, 0, << >>)
           IN  /\ r.found <=> last' = "some"
               /\ r.found => out' = Append(out, Corner(it.polygon, r.ear))
      /\ (batch' # batch /\ IsOk(batch'[1].res) /\ Len(TheLoop) >= 4) =>
           batch'[1].res.val
             = ScanTriangulation(TheLoop, BatchTf,
                                 polygon_winding(TheLoop, obj, BatchTf), 0) ]_vars

\* The length of the working polygon at which triangulate's loop fails to
\* find an ear on the way down from `polygon`, or 0 when it never fails.
RECURSIVE FailsAt(_, _, _)
FailsAt(polygon, tf, pw) ==
  IF Len(polygon) < 3 THEN 0
  ELSE LET r == find_ear_batch(Points(obj, polygon, tf), pw, 0, << >>)
       IN  IF r.found THEN FailsAt(Remove(polygon, r.ear), tf, pw) ELSE Len(polygon)

\* C20: when exactly 3 vertices remain in the working polygon the next
\* extraction step emits the triangle of these three vertices, whatever the
\* winding, reflex and containment tests say: a face that has got down to 3
\* vertices emits its last triangle and does not fail there.
C20_LastTriangle ==
  [][ /\ (kind = "face" /\ ctor = "Ok" /\ batch' = batch /\ Len(it.polygon) = 3) =>
           /\ last' = "some"
           /\ Len(out') = Len(out) + 1
           /\ \A c \in 1..3 : \E i \in 1..3 : out'[Len(out')][i] = it.polygon[c]
           /\ Len(it'.polygon) = 2
      /\ (batch' # batch /\ Len(TheLoop) >= 3
            /\ \A i \in 1..Len(TheLoop) : InRange(obj, TheLoop[i])) =>
           /\ FailsAt(TheLoop, BatchTf, polygon_winding(TheLoop, obj, BatchTf)) # 3
           /\ batch'[1].res = Err("NoEarFound") =>
                FailsAt(TheLoop, BatchTf, polygon_winding(TheLoop, obj, BatchTf)) > 3 ]_vars

\* s is t with the element at the 0-based index e taken out.
IsWithout(s, t, e) ==
  /\ Len(s) = Len(t) - 1
  /\ \A i \in 1..Len(s) : s[i] = IF i <= e THEN t[i] ELSE t[i + 1]

\* s[i..] can be found, in order, among t[j..].
RECURSIVE IsSubsequence(_, _, _, _)
IsSubsequence(s, t, i, j) ==
  IF i > Len(s) THEN TRUE
  ELSE IF j > Len(t) THEN FALSE
  ELSE IF s[i] = t[j] THEN IsSubsequence(s, t, i + 1, j + 1)
  ELSE IsSubsequence(s, t, i, j + 1)

\* C21: the working polygon starts as a copy of the face's vertex loop; a
\* step that emits a triangle removes the accepted ear vertex and nothing
\* else, so the length drops by one and the other vertices keep their order:
\* the working polygon is always an order-preserving subsequence of the loop.
C21_WorkingPolygon ==
  [][ /\ (kind = "none" /\ kind' = "face" /\ ctor' = "Ok") => it'.polygon = TheLoop
      /\ (kind = "face" /\ ctor = "Ok" /\ batch' = batch) =>
           /\ last' = "some" =>
                \E e \in 0..(Len(it.polygon) - 1) :
                   /\ out'[Len(out')][2] = it.polygon[e + 1]
                   /\ IsWithout(it'.polygon, it.polygon, e)
           /\ IsSubsequence(it'.polygon, TheLoop, 1, 1)
           /\ Len(it'.polygon) >= 2 => Len(it'.polygon) = Len(TheLoop) - Len(out') ]_vars

\* A step has cut the second vertex out of a quad.
C21_Witness ==
  /\ kind = "face"
  /\ ctor = "Ok"
  /\ Len(TheLoop) = 4
  /\ Len(out) = 1
  /\ it.polygon = << TheLoop[1], TheLoop[3], TheLoop[4] >>

\* p lies strictly inside the triangle a, b, c of non-zero area (grid
\* coordinates): on the same side of all three edges.
StrictlyInside(a, b, c, p) ==
  /\ Orient(a, b, c) # 0
  /\ Sign(Orient(a, b, p)) = Sign(Orient(a, b, c))
  /\ Sign(Orient(b, c, p)) = Sign(Orient(a, b, c))
  /\ Sign(Orient(c, a, p)) = Sign(Orient(a, b, c))

\* The third ear test as stated: some vertex after the 0-based index e that
\* is none of the corners of (prev, e, next) lies strictly inside that
\* triangle, or the triangle has zero determinant.
TrapsLater(polygon, e) ==
  LET tri == Corner(polygon, e)
      a == XZ(tri[1])
      b == XZ(tri[2])
      c == XZ(tri[3])
  IN  \E i \in (e + 1)..(Len(polygon) - 1) :
         /\ XZ(polygon[i + 1]) \notin { a, b, c }
         /\ Orient(a, b, c) = 0 \/ StrictlyInside(a, b, c, XZ(polygon[i + 1]))

\* Along the ear search from candidate e on, every candidate that gets to
\* the third test is rejected by it exactly when TrapsLater says so.
RECURSIVE ThirdTestAgrees(_, _, _, _, _)
ThirdTestAgrees(polygon, pts, pw, e, reflex) ==
  IF e >= Len(pts) - 1 THEN TRUE
  ELSE IF winding(Corner(pts, e)) # pw
  THEN ThirdTestAgrees(polygon, pts, pw, e + 1, Append(reflex, e))
  ELSE IF ReflexInside(pts, e, reflex)
  THEN ThirdTestAgrees(polygon, pts, pw, e + 1, reflex)
  ELSE /\ LaterInside(pts, e) <=> TrapsLater(polygon, e)
       /\ LaterInside(pts, e) => ThirdTestAgrees(polygon, pts, pw, e + 1, reflex)

\* C22: in every ear search on a face whose fitted normal is UNIT_Y (the
\* projection is then the identity on x and z) the third test
\* rejects a candidate e exactly when a vertex at an index after e, other
\* than the corners of (prev, e, next), lies strictly inside that triangle,
\* a vertex on an edge not counting; for a triangle of zero determinant every
\* point counts as contained.
C22_ThirdTest ==
  [][ (/\ kind = "face" /\ ctor = "Ok" /\ batch' = batch
       /\ Len(it.polygon) >= 3
       /\ fit_plane_normal(obj, TheLoop) = UNIT_Y) =>
        ThirdTestAgrees(it.polygon, Points(obj, it.polygon, it.tf_flatten),
                        it.polygon_winding, 0, << >>) ]_vars

\* ---------------------------------------------------------------- polygon_winding
\* Mat3::new of the identity: the projection that keeps x and z.
Identity ==
  << FInt(1), FInt(0), FInt(0), FInt(0), FInt(1), FInt(0), FInt(0), FInt(0), FInt(1) >>

\* polygon_winding applied to the loops of at least 3 vertices over the
\* grid, of either orientation, under the identity projection; the one action
\* leaves the winding in `it`.
InitWinding ==
  /\ obj \in { [positions |-> Positions, objects |-> s] :
               s \in { t \in SingleFaceScenes :
                         Len(FaceVertices(t[1].groups[1].faces[1])) >= 3 } }
  /\ kind = "none"
  /\ target = << >>
  /\ ctor = "none"
  /\ it = None
  /\ out = << >>
  /\ last = "start"
  /\ batch = None

PolygonWinding ==
  /\ kind = "none"
  /\ kind' = "winding"
  /\ it' = polygon_winding(TheLoop, obj, Identity)
  /\ UNCHANGED << obj, target, ctor, out, last, batch >>

NextWinding == PolygonWinding

SpecWinding == InitWinding /\ [][NextWinding]_vars

\* C23: for a simple polygon of non-zero area polygon_winding is the
\* orientation of the whole polygon: true exactly when the signed area of
\* the projected polygon (shoelace sum in loop order) is positive.
C23_PolygonWinding ==
  (kind = "winding" /\ IsSimple(TheLoop)) => (it <=> Area2(TheLoop) > 0)

\* polygon_winding has returned true for a simple quad that turns the other
\* way at its first vertex.
C23_Witness ==
  /\ kind = "winding"
  /\ IsSimple(TheLoop)
  /\ Len(TheLoop) = 4
  /\ it = TRUE
  /\ Orient(XZ(TheLoop[4]), XZ(TheLoop[1]), XZ(TheLoop[2])) < 0

\* The candidates below the 0-based index e whose triangle winds against pw,
\* in increasing order.
RECURSIVE Disagreeing(_, _, _)
Disagreeing(pts, pw, e) ==
  IF e = 0 THEN << >>
  ELSE IF winding(Corner(pts, e - 1)) # pw
  THEN Append(Disagreeing(pts, pw, e - 1), e - 1)
  ELSE Disagreeing(pts, pw, e - 1)

\* The outcome r of an ear search on pts: the reflex set holds the
\* disagreeing candidates examined in this search and nothing else, and an
\* accepted candidate has no recorded index, other than its prev and next,
\* inside its triangle.
SearchRecord(pts, pw, r) ==
  /\ r.reflex_indices = Disagreeing(pts, pw, r.ear)
  /\ r.found =>
       \A k \in 1..Len(r.reflex_indices) :
          \/ r.reflex_indices[k] = PrevIdx(r.ear, Len(pts) - 1)
          \/ r.reflex_indices[k] = NextIdx(r.ear, Len(pts) - 1)
          \/ ~contains(Corner(pts, r.ear), pts[r.reflex_indices[k] + 1])

\* SearchRecord for every search of triangulate's loop from `polygon` on.
RECURSIVE BatchRecords(_, _, _)
BatchRecords(polygon, tf, pw) ==
  IF Len(polygon) < 3 THEN TRUE
  ELSE LET pts == Points(obj, polygon, tf)
           r == find_ear_batch(pts, pw, 0, << >>)
       IN  /\ SearchRecord(pts, pw, r)
           /\ r.found => BatchRecords(Remove(polygon, r.ear), tf, pw)

Far == 4096

FarCoords == << 0, 1, Far, Far + 1 >>

\* The positions (x, 0, z) over FarCoords, x-major.
FarPositions ==
  [i \in 1..16 |-> Vec3(FInt(FarCoords[((i - 1) \div 4) + 1]), FInt(0),
                        FInt(FarCoords[((i - 1) % 4) + 1]))]

\* The loop `vertices` started k places later.
Rotate(vertices, k) ==
  [i \in 1..Len(vertices) |-> vertices[((i - 1 + k) % Len(vertices)) + 1]]

\* The accumulator of fit_plane_normal after its loop, before normalize.
NewellSum(o, vertices) ==
  Newell(o, vertices, 1, pos(o, vertices[Len(vertices)]),
         Vec3(FInt(0), FInt(0), FInt(0)))

\* Largest accumulated |y| of the loops taken: squared_magnitude and sqrt
\* are exact on (0, a, 0) for an integer |a| <= MaxNormal.
MaxNormal == 64

SquareFits(a) == a.d = 1 /\ Abs(a.n) <= MaxNormal

\* The loops of three vertices over FarPositions on which Vec3::normalize
\* is exact from every start point.
FarLoops ==
  { l \in { MkLoop(ps) : ps \in [1..3 -> 1..16] } :
      \A k \in 0..2 :
         SquareFits(NewellSum([positions |-> FarPositions], Rotate(l, k)).y) }

InitNormal ==
  /\ obj \in { [positions |-> FarPositions,
                objects |-> << [groups |-> << [faces |-> << MkFace(l) >>] >>] >>] :
               l \in FarLoops }
  /\ kind = "none"
  /\ target = << >>
  /\ ctor = "none"
  /\ it = None
  /\ out = << >>
  /\ last = "start"
  /\ batch = None

\* fit_plane_normal applied to the loop of the face started at its k-th
\* vertex; the start is kept in `target` and the normal in `it`.
FitPlaneNormal ==
  /\ kind = "none"
  /\ \E k \in 0..(Len(TheLoop) - 1) :
       /\ target' = << k >>
       /\ it' = fit_plane_normal(obj, Rotate(TheLoop, k))
  /\ kind' = "normal"
  /\ UNCHANGED << obj, ctor, out, last, batch >>

NextNormal == FitPlaneNormal

SpecNormal == InitNormal /\ [][NextNormal]_vars

\* C25: fit_plane_normal does not depend on the start point of the loop:
\* the normal fitted to any cyclic rotation of the loop is the normal fitted
\* to the loop itself.
C25_StartPoint ==
  kind = "normal" => it = fit_plane_normal(obj, TheLoop)

\* Whether the positions of the loop all lie on one line (or coincide).
Collinear(loop) ==
  \A i, j, k \in 1..Len(loop) : Orient(XZ(loop[i]), XZ(loop[j]), XZ(loop[k])) = 0

\* C26: for a loop whose positions are all collinear or all equal
\* fit_plane_normal returns the zero vector, and for a loop whose Newell
\* accumulator is not zero it returns a vector of unit length.
C26_Degenerate ==
  kind = "normal" =>
    /\ Collinear(TheLoop) => it = Vec3(FInt(0), FInt(0), FInt(0))
    /\ NewellSum(obj, Rotate(TheLoop, target[1])) # Vec3(FInt(0), FInt(0), FInt(0)) =>
         squared_magnitude(it) = FInt(1)

\* ---------------------------------------------------------------- parser
\* OBJ::from_path.  A line is its first word `key` and the words after it;
\* a word is the sequence of its fields between '/'.  A field is the text
\* `s` of the number `v`, the empty text, or text that is no number.
Num(i) == [t |-> "num", v |-> i, s |-> "#"]

Empty == [t |-> "empty", v |-> 0, s |-> ""]

Text(s) == [t |-> "text", v |-> 0, s |-> s]

\* The text of a word of one field.
str(word) == word[1].s

\* i32::from_str, and f32::from_str on the numbers of the model
from_str(field) == IF field.t = "num" THEN Ok(field.v) ELSE Err("Parse")

\* f32::from_str on a word: a word with a '/' is no number.
float_from_str(word) == IF Len(word) = 1 THEN from_str(word[1]) ELSE Err("Parse")

\* calc_index!; the indices of the model keep count + index + 1 >= 0, where
\* `as usize` keeps the value.
calc_index(index, count) == IF index < 0 THEN count + index + 1 ELSE index

\* The closure of parse_face on one word: word.split('/') has at least one
\* item; a missing or empty second field and a missing third field are 0.
parse_pos(word) == from_str(word[1])

parse_coord(word) ==
  IF Len(word) < 2 \/ word[2].t = "empty" THEN Ok(0) ELSE from_str(word[2])

parse_normal(word) == IF Len(word) < 3 THEN Ok(0) ELSE from_str(word[3])

parse_vertex(pos_size, uv_size, norm_size, word) ==
  IF \/ parse_pos(word).tag = "Err"
     \/ parse_coord(word).tag = "Err"
     \/ parse_normal(word).tag = "Err"
  THEN Err("ParseFace")
  ELSE Ok(<< calc_index(parse_pos(word).val, pos_size),
             calc_index(parse_coord(word).val, uv_size),
             calc_index(parse_normal(word).val, norm_size) >>)

\* words.map(..).collect::<Result<Vec<Vertex>, Error>>()
parse_indices(pos_size, uv_size, norm_size, words) ==
  IF \E i \in 1..Len(words) :
       parse_vertex(pos_size, uv_size, norm_size, words[i]).tag = "Err"
  THEN Err("ParseFace")
  ELSE Ok(SubSeq([i \in 1..Len(words) |->
                    parse_vertex(pos_size, uv_size, norm_size, words[i]).val],
                 1, Len(words)))

\* Variant of parse_match that makes a Quad of the first four of five or
\* more indices.
parse_match_quad(indices) ==
  IF Len(indices) <= 2 THEN Err("ParseFace")
  ELSE IF Len(indices) = 3
  THEN Ok([tag |-> "Tri", vertices |-> << indices[1], indices[2], indices[3] >>])
  ELSE Ok([tag |-> "Quad",
           vertices |-> << indices[1], indices[2], indices[3], indices[4] >>])

\* match indices.len()
parse_match(indices) ==
  IF Len(indices) <= 2 THEN Err("ParseFace")
  ELSE IF Len(indices) = 3
  THEN Ok([tag |-> "Tri", vertices |-> << indices[1], indices[2], indices[3] >>])
  ELSE IF Len(indices) = 4
  THEN Ok([tag |-> "Quad",
           vertices |-> << indices[1], indices[2], indices[3], indices[4] >>])
  ELSE Ok([tag |-> "NGon", vertices |-> indices])

\* parse_face
parse_face(pos_size, uv_size, norm_size, words) ==
  IF parse_indices(pos_size, uv_size, norm_size, words).tag = "Err"
  THEN Err("ParseFace")
  ELSE parse_match(parse_indices(pos_size, uv_size, norm_size, words).val)

\* try_take_floats!
try_take_floats(count, words, err) ==
  IF Len(words) < count \/ \E i \in 1..count : float_from_str(words[i]).tag = "Err"
  THEN Err(err)
  ELSE Ok(SubSeq([i \in 1..count |-> FInt(float_from_str(words[i]).val)], 1, count))

\* Group::new
Group_new(name) == [name |-> name, faces |-> << >>, material |-> None]

\* Object::new
Object_new(name) == [name |-> name, groups |-> << >>]

\* Object::last_group: the object after the call; the group returned is its
\* last one.
last_group(self) ==
  IF self.groups = << >> THEN [self EXCEPT !.groups = << Group_new("default") >>]
  ELSE self

\* OBJ::last_object: the OBJ after the call; the object returned is its last
\* one.
last_object(self) ==
  IF self.objects = << >> THEN [self EXCEPT !.objects = << Object_new("default") >>]
  ELSE self

\* OBJ::default
OBJ_default ==
  [positions |-> << >>, normals |-> << >>, uvs |-> << >>, objects |-> << >>,
   materials |-> << >>]

\* The arm of Some("o"): ret.objects.push(Object::new(..))
from_path_o(ret, words) ==
  IF words = << >> THEN Err("ParseObject")
  ELSE Ok([ret EXCEPT !.objects = Append(@, Object_new(str(words[1])))])

\* ret.groups.push(group) on the last object of ret.
push_group(ret, group) ==
  [ret EXCEPT !.objects[Len(ret.objects)].groups = Append(@, group)]

\* The arm of Some("g"): ret.last_object().groups.push(Group::new(..))
from_path_g(ret, words) ==
  IF words = << >> THEN Err("ParseGroup")
  ELSE Ok(push_group(last_object(ret), Group_new(str(words[1]))))

\* The arms of Some("v"), Some("vt") and Some("vn").
from_path_v(ret, words) ==
  IF try_take_floats(3, words, "ParseVertex").tag = "Err" THEN Err("ParseVertex")
  ELSE Ok([ret EXCEPT !.positions =
             Append(@, Vec3(try_take_floats(3, words, "ParseVertex").val[1],
                            try_take_floats(3, words, "ParseVertex").val[2],
                            try_take_floats(3, words, "ParseVertex").val[3]))])

from_path_vt(ret, words) ==
  IF try_take_floats(2, words, "ParseTexcoord").tag = "Err" THEN Err("ParseTexcoord")
  ELSE Ok([ret EXCEPT !.uvs =
             Append(@, Vec2(try_take_floats(2, words, "ParseTexcoord").val[1],
                            try_take_floats(2, words, "ParseTexcoord").val[2]))])

from_path_vn(ret, words) ==
  IF try_take_floats(3, words, "ParseNormal").tag = "Err" THEN Err("ParseNormal")
  ELSE Ok([ret EXCEPT !.normals =
             Append(@, Vec3(try_take_floats(3, words, "ParseNormal").val[1],
                            try_take_floats(3, words, "ParseNormal").val[2],
                            try_take_floats(3, words, "ParseNormal").val[3]))])

\* ret.last_object().last_group() on ret: the OBJ after the two calls.
last_object_last_group(ret) ==
  [ret EXCEPT !.objects[Len(ret.objects)] = last_group(@)]

\* Variant of push_face that pushes to the first group of the last object.
push_face_first(ret, face) ==
  [ret EXCEPT !.objects[Len(ret.objects)].groups[1].faces = Append(@, face)]

\* faces.push(face) on the last group of the last object of ret.
push_face(ret, face) ==
  [ret EXCEPT !.objects[Len(ret.objects)]
                 .groups[Len(ret.objects[Len(ret.objects)].groups)]
                 .faces = Append(@, face)]

\* The arm of Some("f"): the sizes are taken before the face is parsed.
from_path_f(ret, words) ==
  IF parse_face(Len(ret.positions), Len(ret.uvs), Len(ret.normals), words).tag = "Err"
  THEN Err("ParseFace")
  ELSE Ok(push_face(last_object_last_group(last_object(ret)),
                    parse_face(Len(ret.positions), Len(ret.uvs), Len(ret.normals),
                               words).val))

\* The body of the loop over the lines of from_path: match words.next()
from_path_line(ret, line) ==
  IF line.key = "o" THEN from_path_o(ret, line.words)
  ELSE IF line.key = "g" THEN from_path_g(ret, line.words)
  ELSE IF line.key = "v" THEN from_path_v(ret, line.words)
  ELSE IF line.key = "vt" THEN from_path_vt(ret, line.words)
  ELSE IF line.key = "vn" THEN from_path_vn(ret, line.words)
  ELSE IF line.key = "f" THEN from_path_f(ret, line.words)
  ELSE Ok(ret)

\* Files of at most MaxLines lines; an `f` line has up to MaxRefs references.
MaxLines == 4
MaxRefs == 5

Line(key, words) == [key |-> key, words |-> words]

\* `f 1 2 .. k`
PlainFace(k) == Line("f", [i \in 1..k |-> << Num(i) >>])

\* `f -1/1 2//-1 3/2/1`, `f 1 x 3` and `f 1 2 3/1/`
MixedFace ==
  Line("f", << << Num(-1), Num(1) >>, << Num(2), Empty, Num(-1) >>,
               << Num(3), Num(2), Num(1) >> >>)

TextFace == Line("f", << << Num(1) >>, << Text("x") >>, << Num(3) >> >>)

SlashFace == Line("f", << << Num(1) >>, << Num(2) >>, << Num(3), Num(1), Empty >> >>)

\* The lines of the model's files: `o A`, `o`, `g B`, `g`, `v 0 0 1`,
\* `vt 0 1`, `vn 0 1 0`, `# ..` and the `f` lines.
LinePool ==
  { Line("o", << << Text("A") >> >>), Line("o", << >>),
    Line("g", << << Text("B") >> >>), Line("g", << >>),
    Line("v", << << Num(0) >>, << Num(0) >>, << Num(1) >> >>),
    Line("vt", << << Num(0) >>, << Num(1) >> >>),
    Line("vn", << << Num(0) >>, << Num(1) >>, << Num(0) >> >>), Line("#", << >>),
    MixedFace, TextFace, SlashFace }
  \cup { PlainFace(k) : k \in 0..MaxRefs }

\* from_path before File::open: the lines of the file are in `target`.
InitParse ==
  /\ obj = OBJ_default
  /\ kind = "none"
  /\ target \in SeqsUpTo(LinePool, MaxLines)
  /\ ctor = "none"
  /\ it = None
  /\ out = << >>
  /\ last = "start"
  /\ batch = None

\* File::open(path).map_err(Error::IO)?
Open ==
  /\ kind = "none"
  /\ ctor = "none"
  /\ \E ok \in BOOLEAN :
       IF ok THEN kind' = "parse" /\ ctor' = ctor
       ELSE kind' = kind /\ ctor' = "IO"
  /\ UNCHANGED << obj, target, it, out, last, batch >>

\* One iteration of `for line in reader.lines()`: reading the line fails, or
\* the line is matched; an error ends from_path.  The line read is kept
\* in `out`.
ParseLine ==
  /\ kind = "parse"
  /\ ctor = "none"
  /\ target # << >>
  /\ \E read \in BOOLEAN :
       IF ~read THEN ctor' = "IO" /\ obj' = obj
       ELSE IF from_path_line(obj, Head(target)).tag = "Err"
       THEN ctor' = from_path_line(obj, Head(target)).err /\ obj' = obj
       ELSE ctor' = ctor /\ obj' = from_path_line(obj, Head(target)).val
  /\ target' = Tail(target)
  /\ out' = << Head(target) >>
  /\ UNCHANGED << kind, it, last, batch >>

\* Ok(ret) after the last line.
EndOfFile ==
  /\ kind = "parse"
  /\ ctor = "none"
  /\ target = << >>
  /\ ctor' = "Ok"
  /\ UNCHANGED << obj, kind, target, it, out, last, batch >>

NextParse == Open \/ ParseLine \/ EndOfFile

SpecParse == InitParse /\ [][NextParse]_vars

\* Whether the word is a vertex reference p, p/t, p//n or p/t/n of integers.
IsReference(word) ==
  /\ Len(word) \in 1..3
  /\ word[1].t = "num"
  /\ Len(word) = 2 => word[2].t = "num"
  /\ Len(word) = 3 => word[2].t \in { "num", "empty" } /\ word[3].t = "num"

\* The index a reference field stands for among `count` elements: itself,
\* counted from the end when negative, and 0 when the field is absent.
RefIndex(word, i, count) ==
  IF i > Len(word) \/ word[i].t = "empty" THEN 0
  ELSE IF word[i].v < 0 THEN count + 1 + word[i].v
  ELSE word[i].v

\* The vertex a reference stands for in the OBJ o.
RefVertex(word, o) ==
  << RefIndex(word, 1, Len(o.positions)), RefIndex(word, 2, Len(o.uvs)),
     RefIndex(word, 3, Len(o.normals)) >>

\* The variant a face of k references has to be.
VariantOf(k) == IF k = 3 THEN "Tri" ELSE IF k = 4 THEN "Quad" ELSE "NGon"

\* The last face of the last group of the last object of o.
LastGroupOf(o) ==
  o.objects[Len(o.objects)].groups[Len(o.objects[Len(o.objects)].groups)]

LastFaceOf(o) == LastGroupOf(o).faces[Len(LastGroupOf(o).faces)]

\* Every face of o is a Tri of 3, a Quad of 4 or an NGon of at least 5
\* vertex references.
FacesShaped(o) ==
  \A i \in 1..Len(o.objects) :
    \A j \in 1..Len(o.objects[i].groups) :
      \A f \in 1..Len(o.objects[i].groups[j].faces) :
        LET face == o.objects[i].groups[j].faces[f]
        IN  /\ Len(face.vertices) >= 3
            /\ face.tag = VariantOf(Len(face.vertices))

\* C27: an `f` line of k vertex references gives Err(ParseFace) when k < 3
\* and otherwise a Tri (k = 3), a Quad (k = 4) or an NGon (k >= 5) holding
\* the references in line order; every face of a parsed OBJ is a Tri of 3,
\* a Quad of 4 or an NGon of at least 5 references.
C27_ParseFace ==
  [][ /\ ( /\ kind = "parse" /\ ctor = "none" /\ target # << >>
           /\ Head(target).key = "f"
           /\ ctor' # "IO"
           /\ \A i \in 1..Len(Head(target).words) : IsReference(Head(target).words[i]) ) =>
           LET words == Head(target).words
               k == Len(words)
           IN  IF k < 3 THEN ctor' = "ParseFace"
               ELSE /\ ctor' = "none"
                    /\ LastFaceOf(obj').tag = VariantOf(k)
                    /\ LastFaceOf(obj').vertices = [i \in 1..k |-> RefVertex(words[i], obj)]
      /\ FacesShaped(obj') ]_vars

\* A file of a triangle, a quad and a five-sided face has been parsed.
C27_Witness ==
  /\ ctor = "Ok"
  /\ Len(obj.objects) = 1
  /\ Len(obj.objects[1].groups) = 1
  /\ Len(obj.objects[1].groups[1].faces) = 3
  /\ obj.objects[1].groups[1].faces[1].tag = "Tri"
  /\ obj.objects[1].groups[1].faces[2].tag = "Quad"
  /\ obj.objects[1].groups[1].faces[3].tag = "NGon"
  /\ Len(obj.objects[1].groups[1].faces[3].vertices) = 5

\* The faces of the groups from the j-th on, and of the objects from the
\* i-th on, one after the other.
RECURSIVE GroupFaces(_, _)
GroupFaces(groups, j) ==
  IF j > Len(groups) THEN << >> ELSE groups[j].faces \o GroupFaces(groups, j + 1)

RECURSIVE ObjectFaces(_, _)
ObjectFaces(objects, i) ==
  IF i > Len(objects) THEN << >>
  ELSE GroupFaces(objects[i].groups, 1) \o ObjectFaces(objects, i + 1)

\* The objects with one named "default" created when there is none, and
\* the groups likewise.
WithDefaultObject(objects) ==
  IF Len(objects) = 0 THEN << [name |-> "default", groups |-> << >>] >> ELSE objects

WithDefaultGroup(groups) ==
  IF Len(groups) = 0 THEN << [name |-> "default", faces |-> << >>, material |-> << >>] >>
  ELSE groups

\* after is before with x appended.
Appended(after, before, x) == after = before \o << x >>

\* after is the objects `before` with the groups of the last one replaced
\* by groups.
LastGroupsSet(after, before, groups) ==
  /\ Len(after) = Len(before)
  /\ \A i \in 1..(Len(before) - 1) : after[i] = before[i]
  /\ after[Len(after)].name = before[Len(before)].name
  /\ after[Len(after)].groups = groups

\* after is the groups `before` with one face put at the end of the last
\* group.
FaceAppended(after, before) ==
  /\ Len(after) = Len(before)
  /\ \A j \in 1..(Len(before) - 1) : after[j] = before[j]
  /\ after[Len(after)].name = before[Len(before)].name
  /\ Len(after[Len(after)].faces) = Len(before[Len(before)].faces) + 1
  /\ SubSeq(after[Len(after)].faces, 1, Len(before[Len(before)].faces))
       = before[Len(before)].faces

\* C28: an `f` line puts its face at the end of the last group of the last
\* object there is at that moment, after an object "default" has been
\* created when there is no object and a group "default" when that object
\* has no group; an `o` line appends an empty object and a `g` line an
\* empty group, and neither moves, reorders or drops a face parsed before.
C28_FacePlacement ==
  [][ ( /\ kind = "parse" /\ ctor = "none" /\ target # << >>
        /\ Head(target).key \in { "o", "g", "f" }
        /\ ctor' = "none" ) =>
        LET line == Head(target)
            objects == WithDefaultObject(obj.objects)
            groups == WithDefaultGroup(objects[Len(objects)].groups)
        IN  /\ line.key = "f" =>
                 /\ \E gs \in { obj'.objects[Len(obj'.objects)].groups } :
                      /\ LastGroupsSet(obj'.objects, objects, gs)
                      /\ FaceAppended(gs, groups)
                 /\ Len(ObjectFaces(obj'.objects, 1)) = Len(ObjectFaces(obj.objects, 1)) + 1
                 /\ SubSeq(ObjectFaces(obj'.objects, 1), 1, Len(ObjectFaces(obj.objects, 1)))
                      = ObjectFaces(obj.objects, 1)
            /\ line.key = "o" =>
                 /\ Appended(obj'.objects, obj.objects,
                             [name |-> str(line.words[1]), groups |-> << >>])
                 /\ ObjectFaces(obj'.objects, 1) = ObjectFaces(obj.objects, 1)
            /\ line.key = "g" =>
                 /\ LastGroupsSet(obj'.objects, objects,
                                  objects[Len(objects)].groups \o
                                    << [name |-> str(line.words[1]), faces |-> << >>,
                                        material |-> << >>] >>)
                 /\ ObjectFaces(obj'.objects, 1) = ObjectFaces(obj.objects, 1)
            /\ obj'.positions = obj.positions
            /\ obj'.uvs = obj.uvs
            /\ obj'.normals = obj.normals ]_vars

\* A face parsed before any `o` line is in the group "default" of the
\* object "default", and a face parsed after `o A` in the group "default"
\* of A.
C28_Witness ==
  /\ ctor = "Ok"
  /\ Len(obj.objects) = 2
  /\ obj.objects[1].name = "default"
  /\ Len(obj.objects[1].groups) = 1
  /\ obj.objects[1].groups[1].name = "default"
  /\ Len(obj.objects[1].groups[1].faces) = 1
  /\ obj.objects[2].name = "A"
  /\ Len(obj.objects[2].groups) = 1
  /\ obj.objects[2].groups[1].name = "default"
  /\ Len(obj.objects[2].groups[1].faces) = 1

\* The indices of a search on a polygon of length L that ended with r: for
\* every candidate examined prev, ear and next are pairwise distinct
\* indices of the polygon and the slice polygon[ear + 1..] starts within
\* it; the reflex indices and the index removed are indices of the polygon.
SearchInBounds(L, r) ==
  /\ \A e \in 0..(IF r.found THEN r.ear ELSE L - 2) :
        LET p == PrevIdx(e, L - 1)
            n == NextIdx(e, L - 1)
        IN  /\ p # e /\ e # n /\ p # n
            /\ { p, e, n } \subseteq 0..(L - 1)
            /\ e + 1 <= L
  /\ \A k \in 1..Len(r.reflex_indices) : r.reflex_indices[k] \in 0..(L - 1)
  /\ r.found => r.ear \in 0..(L - 1)
  /\ ~r.found => r.ear = L - 1

\* SearchInBounds for every search of triangulate's loop from `polygon` on.
RECURSIVE BatchInBounds(_, _, _)
BatchInBounds(polygon, tf, pw) ==
  IF Len(polygon) < 3 THEN TRUE
  ELSE LET r == find_ear_batch(Points(obj, polygon, tf), pw, 0, << >>)
       IN  /\ SearchInBounds(Len(polygon), r)
           /\ r.found => BatchInBounds(Remove(polygon, r.ear), tf, pw)

\* C29: in every ear search on a working polygon of length L >= 3 prev, ear
\* and next are pairwise distinct and lie in 0..L-1, and every index of the
\* reflex set is below L, so FaceTriangulator::next and triangulate index
\* the working polygon within its bounds; the triangle returned is made of
\* three different places of the polygon.
C29_InBounds ==
  [][ /\ (kind = "face" /\ ctor = "Ok" /\ batch' = batch /\ Len(it.polygon) >= 3) =>
           LET r == find_ear(Points(obj, it.polygon, it.tf_flatten),
                             it.polygon_winding, 0, << >>)
           IN  /\ SearchInBounds(Len(it.polygon), r)
               /\ it'.reflex_indices = r.reflex_indices
               /\ last' = "some" =>
                    /\ r.found
                    /\ out'[Len(out')] =
                         << it.polygon[PrevIdx(r.ear, Len(it.polygon) - 1) + 1],
                            it.polygon[r.ear + 1],
                            it.polygon[NextIdx(r.ear, Len(it.polygon) - 1) + 1] >>
                    /\ Cardinality({ out'[Len(out')][1], out'[Len(out')][2],
                                     out'[Len(out')][3] }) = 3
      /\ (batch' # batch /\ Len(TheLoop) >= 4
            /\ \A i \in 1..Len(TheLoop) : InRange(obj, TheLoop[i])) =>
           LET tf == BatchTf
           IN  BatchInBounds(TheLoop, tf, polygon_winding(TheLoop, obj, tf)) ]_vars

\* A search on a quad has passed over candidate 0, recorded it as reflex,
\* and cut the ear at index 1, whose prev is 0 and next is 2.
C29_Witness ==
  /\ kind = "face"
  /\ ctor = "Ok"
  /\ Len(TheLoop) = 4
  /\ Len(out) = 1
  /\ last = "some"
  /\ it.reflex_indices = << 0 >>
  /\ out[1] = << TheLoop[1], TheLoop[2], TheLoop[3] >>

\* C30: at every point of the iteration size_hint returns (k, Some(k)) with
\* k = max(len - 2, 0) for the length len of the working polygon, and k is
\* the number of triangles the following next() calls return before None.
C30_SizeHint ==
  (kind = "face" /\ ctor = "Ok") =>
    LET len == Len(it.polygon)
        k == IF len - 2 > 0 THEN len - 2 ELSE 0
    IN  /\ size_hint(it) = << k, Some(k) >>
        /\ Len(Drain(it, << >>)) = k

\* C31: after from_path has succeeded, every position index stored in a
\* face lies between 1 and the number of parsed positions, so
\* positions[vertex[0] - 1] in OBJ::pos and FlatIterator::next neither
\* underflows nor indexes outside the array.
C31_PositionsInRange ==
  (kind = "parse" /\ ctor = "Ok") =>
    \A i \in 1..Len(obj.objects) :
      \A j \in 1..Len(obj.objects[i].groups) :
        \A f \in 1..Len(obj.objects[i].groups[j].faces) :
          \A v \in 1..Len(obj.objects[i].groups[j].faces[f].vertices) :
            InRange(obj, obj.objects[i].groups[j].faces[f].vertices[v])

====
